---- MODULE Spec2Model ----
(***************************************************************************)
(* A model of neo4j_export.py: identifier resolution, node flattening and  *)
(* relationship flattening of Neo4jExporter.                               *)
(*                                                                         *)
(* Names (labels, relationship types, property names, column names, file   *)
(* names) are Python strings.  They are modelled as sequences of           *)
(* one-character strings so that len(), lower(), endswith(), f-string      *)
(* concatenation and the code-point order used by sorted() are computed    *)
(* as Python computes them.  Property values are modelled as TLA+ strings. *)
(***************************************************************************)
EXTENDS Integers, Sequences, FiniteSets, TLC

----------------------------------------------------------------------------
(* Python str primitives                                                   *)

Range(s) == {s[i] : i \in 1..Len(s)}

\* ord(c) for a run of consecutive characters that starts at code `first`
CodeBlock(first, chars) ==
  [c \in Range(chars) |-> first - 1 + CHOOSE k \in 1..Len(chars) : chars[k] = c]

\* ord(c) for the characters used by the names and values of the model
Code ==
  CodeBlock(32, <<" ">>)
    @@ CodeBlock(35, <<"#">>)
    @@ CodeBlock(43, <<"+", ",", "-", ".", "/", "0", "1", "2", "3", "4", "5", "6", "7",
                       "8", "9", ":">>)
    @@ CodeBlock(65, <<"A", "B", "C", "D", "E", "F", "G", "H", "I", "J", "K", "L", "M",
                       "N", "O", "P", "Q", "R", "S", "T", "U", "V", "W", "X", "Y", "Z">>)
    @@ CodeBlock(95, <<"_">>)
    @@ CodeBlock(97, <<"a", "b", "c", "d", "e", "f", "g", "h", "i", "j", "k", "l", "m",
                       "n", "o", "p", "q", "r", "s", "t", "u", "v", "w", "x", "y", "z">>)

\* str.lower() on one character: 'A'..'Z' map to 'a'..'z'
LowerChar(c) ==
  IF Code[c] >= 65 /\ Code[c] <= 90
    THEN CHOOSE l \in DOMAIN Code : Code[l] = Code[c] + 32
    ELSE c

\* str.lower()
Lower(s) == [i \in 1..Len(s) |-> LowerChar(s[i])]

\* str.endswith(suffix)
EndsWith(s, suffix) ==
  /\ Len(s) >= Len(suffix)
  /\ SubSeq(s, Len(s) - Len(suffix) + 1, Len(s)) = suffix

\* a < b for Python strings (code-point lexicographic order)
RECURSIVE StrLess(_, _)
StrLess(a, b) ==
  IF b = <<>> THEN FALSE
  ELSE IF a = <<>> THEN TRUE
  ELSE IF Code[Head(a)] # Code[Head(b)] THEN Code[Head(a)] < Code[Head(b)]
  ELSE StrLess(Tail(a), Tail(b))

\* sorted(S) for a set S of strings
RECURSIVE Sorted(_)
Sorted(S) ==
  IF S = {} THEN <<>>
  ELSE LET m == CHOOSE x \in S : \A y \in S : x = y \/ StrLess(x, y)
       IN  <<m>> \o Sorted(S \ {m})

\* Python None, as returned by dict.get for a missing key; no property
\* value of the model equals it
None == "<None>"

\* Python None where a name is expected; it is no string
NoName == <<"<None>">>

\* dict.get(key)
Get(d, key) == IF key \in DOMAIN d THEN d[key] ELSE None

\* value in [None, "", "NULL"]
IsNullValue(v) == v \in {None, "", "NULL"}

\* The literal 'id'
STR_id == <<"i", "d">>

\* the ValueError raised by _determine_identifier, as a result value that
\* is no string
ValueError == <<"ValueError">>

----------------------------------------------------------------------------
(* Neo4jExporter._determine_identifier                                     *)

\* key=lambda x: (x.lower() != 'id', len(x)), compared as Python compares
\* tuples (False < True)
KeyLess(x, y) ==
  LET kx == IF Lower(x) # STR_id THEN 1 ELSE 0
      ky == IF Lower(y) # STR_id THEN 1 ELSE 0
  IN  kx < ky \/ (kx = ky /\ Len(x) < Len(y))

\* mutant: the candidates are not sorted by key
FirstByKey_Unsorted(candidates) == candidates[1]

\* sorted(candidates, key=...)[0]: sorted() is stable, so the result is the
\* earliest candidate that no other candidate precedes by key
FirstByKey(candidates) ==
  LET i == CHOOSE i \in 1..Len(candidates) :
             /\ \A j \in 1..Len(candidates) : ~KeyLess(candidates[j], candidates[i])
             /\ \A j \in 1..(i - 1) : KeyLess(candidates[i], candidates[j])
  IN  candidates[i]

\* values = [node.get(prop) for node in nodes
\*           if node.get(prop) not in [None, "", "NULL"]]
SampleValues(prop, nodes) ==
  SelectSeq([k \in 1..Len(nodes) |-> Get(nodes[k], prop)],
            LAMBDA v : ~IsNullValue(v))

\* mutant: the test that values is not empty is missing
AllUnique_Vacuous(prop, nodes) ==
  LET values == SampleValues(prop, nodes)
  IN  Len(values) = Cardinality(Range(values))

\* values and len(values) == len(set(values))
AllUnique(prop, nodes) ==
  LET values == SampleValues(prop, nodes)
  IN  values # <<>> /\ Len(values) = Cardinality(Range(values))

\* mutant: the last property of the constraint list instead of the first
ConstraintIdentifier_Last(uc, label) == uc[label][Len(uc[label])]

\* identifier = self.unique_constraints[label][0]
ConstraintIdentifier(uc, label) == uc[label][1]

determine_identifier(uc, label, properties, nodes) ==
  IF label \in DOMAIN uc /\ uc[label] # <<>>
    THEN ConstraintIdentifier(uc, label)
  ELSE IF \E i \in 1..Len(properties) : Lower(properties[i]) = STR_id
    THEN properties[CHOOSE i \in 1..Len(properties) :
                      /\ Lower(properties[i]) = STR_id
                      /\ \A j \in 1..(i - 1) : Lower(properties[j]) # STR_id]
  ELSE LET id_candidates == SelectSeq(properties, LAMBDA p : EndsWith(Lower(p), STR_id))
       IN  IF id_candidates # <<>>
             THEN FirstByKey(id_candidates)
           ELSE IF \E i \in 1..Len(properties) : AllUnique(properties[i], nodes)
             THEN properties[CHOOSE i \in 1..Len(properties) :
                               /\ AllUnique(properties[i], nodes)
                               /\ \A j \in 1..(i - 1) : ~AllUnique(properties[j], nodes)]
           ELSE IF properties # <<>>
             THEN properties[1]
           ELSE ValueError

----------------------------------------------------------------------------
(* Names used by the inputs of the model                                   *)

Person  == <<"P", "e", "r", "s", "o", "n">>
Account == <<"A", "c", "c", "o", "u", "n", "t">>
LabelA  == <<"A">>
LabelAb == <<"A", "_", "b">>
Ghost   == <<"G", "o", "n", "e">>
KNOWS   == <<"K", "N", "O", "W", "S">>
OWNS    == <<"O", "W", "N", "S">>
B_OWNS  == <<"b", "_", "O", "W", "N", "S">>

P_id     == <<"i", "d">>
P_Id     == <<"I", "d">>
P_aaid   == <<"a", "a", "i", "d">>
P_bid    == <<"b", "i", "d">>
P_cid    == <<"c", "i", "d">>
P_userId == <<"u", "s", "e", "r", "I", "d">>
P_name   == <<"n", "a", "m", "e">>
P_nick   == <<"n", "i", "c", "k">>
P_age    == <<"a", "g", "e">>
P_ssn    == <<"s", "s", "n">>
P_b_c    == <<"b", "_", "c">>
P_c      == <<"c">>
P_since  == <<"s", "i", "n", "c", "e">>

\* a dict literal with one key
Dict1(k, v) == (k :> v)
\* the empty dict
EmptyDict == << >>

\* all dicts whose keys are a subset of the domain of `choices` and whose
\* value for key k is drawn from choices[k]
Dicts(choices) ==
  UNION {{d \in [K -> UNION {choices[k] : k \in K}] : \A k \in K : d[k] \in choices[k]}
           : K \in SUBSET DOMAIN choices}

----------------------------------------------------------------------------
(* State                                                                   *)

VARIABLES
  db_nodes,           \* the graph: sequence of [labels, props]
  db_rels,            \* the graph: sequence of [src, dst, type, props]
  db_meta,            \* the records apoc.meta.data() yields
  db_constraints,     \* what the constraint queries yield or raise
  db_indexes,         \* what the index queries yield or raise
  format_version,     \* self.format_version
  metadata,           \* self.metadata: ordered dict name -> element type
  unique_constraints, \* self.unique_constraints: label -> list of properties
  label_identifiers,  \* self.label_identifiers: label -> property
  files,              \* the output directory: file name -> [header, rows]
  node_files,         \* exported_files of export_nodes, in insertion order
  rel_files,          \* exported_files of export_relationships, in insertion order
  nodes_with_id,      \* per label, the positions of the records kept by export_nodes
  relationships,      \* per pattern key, the positions of the records kept
  patterns,           \* the patterns discovered by export_relationships
  indexes,            \* self.indexes
  constraints,        \* self.constraints
  model,              \* the document written to neo4j_importer_model.json
  idx,                \* position of the running for loop
  arg,                \* arguments of a direct call of _determine_identifier
  ret,                \* its result
  pc,                 \* position of the run
  driver,             \* self.driver: "none", "open" or "closed"
  zip_path            \* the archive of the run, None when there is none

dbVars  == <<db_nodes, db_rels, db_meta, db_constraints, db_indexes, format_version>>
docVars == <<indexes, constraints, model>>
runVars == <<metadata, unique_constraints, label_identifiers, files, node_files,
             rel_files, nodes_with_id, relationships, patterns, idx>>
mainVars == <<driver, zip_path>>
vars    == <<dbVars, runVars, docVars, arg, ret, pc, mainVars>>

\* no document is generated yet
NoModel == <<>>

\* the exporter right after __init__
Constructed ==
  /\ metadata = <<>>
  /\ unique_constraints = EmptyDict
  /\ label_identifiers = EmptyDict
  /\ files = EmptyDict
  /\ node_files = <<>>
  /\ rel_files = <<>>
  /\ nodes_with_id = EmptyDict
  /\ relationships = EmptyDict
  /\ patterns = <<>>
  /\ idx = 0
  /\ indexes = <<>>
  /\ constraints = <<>>
  /\ model = NoModel

\* main has constructed the exporter and is inside its try block: the driver
\* is open and no archive is made yet
InTry ==
  /\ driver = "open"
  /\ zip_path = None

NoCall == [label |-> <<>>, properties |-> <<>>, nodes |-> <<>>, uc |-> EmptyDict]

NoDatabase ==
  /\ db_nodes = <<>>
  /\ db_rels = <<>>
  /\ db_meta = <<>>
  /\ db_constraints = [show |-> "raises", records |-> <<>>,
                       legacy |-> "raises", descriptions |-> <<>>]
  /\ db_indexes = [show |-> "raises", records |-> <<>>,
                   legacy |-> "raises", legacy_records |-> <<>>]
  /\ format_version = "3.0"

----------------------------------------------------------------------------
(* Python helpers used by the run                                          *)

\* sub in s
Contains(s, sub) ==
  \E k \in 0..(Len(s) - Len(sub)) : SubSeq(s, k + 1, k + Len(sub)) = sub

\* s.split(c) for a one-character separator c
RECURSIVE Split(_, _)
Split(s, c) ==
  IF \A k \in 1..Len(s) : s[k] # c THEN <<s>>
  ELSE LET k == CHOOSE k \in 1..Len(s) : s[k] = c /\ \A m \in 1..(k - 1) : s[m] # c
       IN  <<SubSeq(s, 1, k - 1)>> \o Split(SubSeq(s, k + 1, Len(s)), c)

\* s.strip(), the only whitespace of the model being the space
RECURSIVE Strip(_)
Strip(s) ==
  IF s = <<>> THEN s
  ELSE IF Head(s) = " " THEN Strip(Tail(s))
  ELSE IF s[Len(s)] = " " THEN Strip(SubSeq(s, 1, Len(s) - 1))
  ELSE s

\* d[key] = value on a dict that keeps insertion order, kept as a sequence
\* of [key, value]
DictSet(d, key, value) ==
  IF \E k \in 1..Len(d) : d[k].key = key
    THEN [k \in 1..Len(d) |-> IF d[k].key = key THEN [key |-> key, value |-> value] ELSE d[k]]
    ELSE Append(d, [key |-> key, value |-> value])

DictKeys(d) == {d[k].key : k \in 1..Len(d)}

\* the positions at which a sequence of booleans is true, ascending
Positions(flags) ==
  SelectSeq([k \in 1..Len(flags) |-> k], LAMBDA k : flags[k])

\* the elements of s without repetitions, in order of first occurrence
RECURSIVE Distinct(_)
Distinct(s) ==
  IF s = <<>> THEN s
  ELSE LET init == Distinct(SubSeq(s, 1, Len(s) - 1))
       IN  IF s[Len(s)] \in Range(init) THEN init ELSE Append(init, s[Len(s)])

\* concatenation of a sequence of sequences
RECURSIVE Flatten(_)
Flatten(ss) == IF ss = <<>> THEN <<>> ELSE Head(ss) \o Flatten(Tail(ss))

Us  == <<"_">>
Csv == <<".", "c", "s", "v">>
SourceSuffix == <<"_", "s", "o", "u", "r", "c", "e">>
TargetSuffix == <<"_", "t", "a", "r", "g", "e", "t">>

\* mutant: a missing value is left blank
DictRow_Blank(fieldnames, rowdict) ==
  [k \in 1..Len(fieldnames) |->
     IF fieldnames[k] \in DOMAIN rowdict THEN rowdict[fieldnames[k]] ELSE ""]

\* csv.DictWriter(fieldnames, extrasaction='ignore', restval='NULL'): one
\* cell per field name, the row's value or restval
DictRow(fieldnames, rowdict) ==
  [k \in 1..Len(fieldnames) |->
     IF fieldnames[k] \in DOMAIN rowdict THEN rowdict[fieldnames[k]] ELSE "NULL"]

\* writer.writeheader(); writer.writerows(rows)
CsvFile(fieldnames, rows) ==
  [header |-> fieldnames,
   rows   |-> [k \in 1..Len(rows) |-> DictRow(fieldnames, rows[k])]]

----------------------------------------------------------------------------
(* The database, as the queries of the exporter see it                     *)

\* MATCH (n:`label`) RETURN n
MatchNodes(label) ==
  LET hit == SelectSeq(db_nodes, LAMBDA n : label \in Range(n.labels))
  IN  [k \in 1..Len(hit) |-> hit[k].props]

\* MATCH (s)-[r:`rel_type`]->(t)
\* RETURN DISTINCT labels(s)[0], type(r), labels(t)[0]
MatchPatterns(rel_type) ==
  LET hit == SelectSeq(db_rels, LAMBDA r : r.type = rel_type)
  IN  Distinct([k \in 1..Len(hit) |->
                  <<db_nodes[hit[k].src].labels[1], hit[k].type,
                    db_nodes[hit[k].dst].labels[1]>>])

\* MATCH (source:`sl`)-[r:`rel_type`]->(target:`tl`) RETURN source, r, target
MatchRelationships(sl, rel_type, tl) ==
  LET hit == SelectSeq(db_rels, LAMBDA r :
                 /\ r.type = rel_type
                 /\ sl \in Range(db_nodes[r.src].labels)
                 /\ tl \in Range(db_nodes[r.dst].labels))
  IN  [k \in 1..Len(hit) |->
         [source |-> db_nodes[hit[k].src].props,
          r      |-> hit[k].props,
          target |-> db_nodes[hit[k].dst].props]]

----------------------------------------------------------------------------
(* Neo4jExporter.get_graph_metadata                                        *)

\* metadata[label] is set by the first record of the label
RECURSIVE CollectMetadata(_, _)
CollectMetadata(meta, records) ==
  IF records = <<>> THEN meta
  ELSE LET rec == Head(records)
       IN  CollectMetadata(
             IF rec.label \in DictKeys(meta) THEN meta
             ELSE DictSet(meta, rec.label, rec.elementType),
             Tail(records))

GetGraphMetadata ==
  /\ pc = "start"
  /\ metadata' = CollectMetadata(metadata, db_meta)
  /\ pc' = "constraints"
  /\ UNCHANGED <<mainVars, dbVars, docVars, unique_constraints, label_identifiers, files, node_files,
                 rel_files, nodes_with_id, relationships, patterns, idx, arg, ret>>

----------------------------------------------------------------------------
(* Neo4jExporter.get_unique_constraints                                    *)

STR_UNIQUE     == <<"U", "N", "I", "Q", "U", "E">>
STR_UNIQUENESS == <<"U", "N", "I", "Q", "U", "E", "N", "E", "S", "S">>
STR_EXISTENCE  == <<"N", "O", "D", "E", "_", "P", "R", "O", "P", "E", "R", "T", "Y", "_", "E", "X", "I", "S", "T", "E", "N", "C", "E">>

\* self.unique_constraints[label].extend(properties)
Extend(uc, label, properties) ==
  IF label \in DOMAIN uc
    THEN [uc EXCEPT ![label] = @ \o properties]
    ELSE Dict1(label, properties) @@ uc

\* the loop over the records of SHOW CONSTRAINTS
RECURSIVE CollectShown(_, _)
CollectShown(uc, records) ==
  IF records = <<>> THEN uc
  ELSE LET rec == Head(records)
           unique == Contains(rec.type, STR_UNIQUENESS) \/ Contains(rec.type, STR_UNIQUE)
       IN  CollectShown(
             IF unique /\ rec.labelsOrTypes # <<>> /\ rec.properties # <<>>
               THEN Extend(uc, rec.labelsOrTypes[1], rec.properties)
               ELSE uc,
             Tail(records))

\* the loop over the records of CALL db.constraints(), which parses
\* "CONSTRAINT ON ( n:Label ) ASSERT (n.property) IS UNIQUE"
RECURSIVE CollectLegacy(_, _)
CollectLegacy(uc, descriptions) ==
  IF descriptions = <<>> THEN uc
  ELSE LET description == Head(descriptions)
           parts      == Split(description, ":")
           prop_parts == Split(description, ".")
       IN  CollectLegacy(
             IF Contains(description, STR_UNIQUE) /\ Len(parts) >= 2 /\ Len(prop_parts) >= 2
               THEN Extend(uc, Strip(Split(parts[2], ")")[1]),
                           <<Strip(Split(prop_parts[2], ")")[1])>>)
               ELSE uc,
             Tail(descriptions))

\* db_constraints.records are the records SHOW CONSTRAINTS yields before it
\* ends ("ok") or raises ("raises"); likewise descriptions for the fallback.
\* export_all goes on with get_constraints_detailed and get_indexes for the
\* formats 3.0 and 2.4.0, and with export_nodes for the format 0.1.0
GetUniqueConstraints ==
  /\ pc = "constraints"
  /\ LET shown == CollectShown(unique_constraints, db_constraints.records)
     IN  unique_constraints' =
           IF db_constraints.show = "ok" THEN shown
           ELSE CollectLegacy(shown, db_constraints.descriptions)
  /\ pc' = IF format_version \in {"2.4.0", "3.0"} THEN "detailed" ELSE "nodes"
  /\ idx' = 1
  /\ UNCHANGED <<mainVars, dbVars, docVars, metadata, label_identifiers, files, node_files,
                 rel_files, nodes_with_id, relationships, patterns, arg, ret>>

----------------------------------------------------------------------------
(* Neo4jExporter.get_constraints_detailed                                  *)

STR_LIT_EXISTENCE == <<"E", "X", "I", "S", "T", "E", "N", "C", "E">>
STR_EXISTS   == <<"E", "X", "I", "S", "T", "S">>
STR_NODE_KEY == <<"N", "O", "D", "E", "_", "K", "E", "Y">>
STR_KEY      == <<"K", "E", "Y">>
STR_NODE     == <<"N", "O", "D", "E">>
STR_node     == <<"n", "o", "d", "e">>
STR_RELATIONSHIP == <<"R", "E", "L", "A", "T", "I", "O", "N", "S", "H", "I", "P">>
STR_uniqueness == <<"u", "n", "i", "q", "u", "e", "n", "e", "s", "s">>
STR_existence  == <<"e", "x", "i", "s", "t", "e", "n", "c", "e">>
STR_key        == <<"k", "e", "y">>

\* the importer constraint type of a Neo4j constraint type
ConstraintType(constraint_type) ==
  IF Contains(constraint_type, STR_UNIQUENESS) \/ Contains(constraint_type, STR_UNIQUE)
    THEN STR_uniqueness
  ELSE IF Contains(constraint_type, STR_LIT_EXISTENCE) \/ Contains(constraint_type, STR_EXISTS)
    THEN STR_existence
  ELSE IF Contains(constraint_type, STR_NODE_KEY) \/ Contains(constraint_type, STR_KEY)
    THEN STR_key
  ELSE STR_uniqueness

\* the loop over the records of SHOW CONSTRAINTS
RECURSIVE CollectDetailed(_, _)
CollectDetailed(cs, records) ==
  IF records = <<>> THEN cs
  ELSE LET rec == Head(records)
       IN  CollectDetailed(
             IF rec.labelsOrTypes # <<>> /\ rec.properties # <<>>
               THEN Append(cs, [name       |-> rec.name,
                                type       |-> ConstraintType(rec.type),
                                entityType |-> Lower(rec.entityType),
                                labels     |-> rec.labelsOrTypes,
                                properties |-> rec.properties])
               ELSE cs,
             Tail(records))

\* SHOW CONSTRAINTS, asked a second time, yields what it yielded to
\* get_unique_constraints; when it raises, the constraints appended so far
\* stay in self.constraints and there is no fallback
GetConstraintsDetailed ==
  /\ pc = "detailed"
  /\ constraints' = CollectDetailed(<<>>, db_constraints.records)
  /\ pc' = "indexes"
  /\ UNCHANGED <<mainVars, dbVars, runVars, indexes, model, arg, ret>>

----------------------------------------------------------------------------
(* Neo4jExporter.get_indexes                                               *)

STR_RANGE   == <<"R", "A", "N", "G", "E">>
STR_TEXT    == <<"T", "E", "X", "T">>
STR_default == <<"d", "e", "f", "a", "u", "l", "t">>

\* the loop over the records of SHOW INDEXES
RECURSIVE CollectIndexes(_, _)
CollectIndexes(ixs, records) ==
  IF records = <<>> THEN ixs
  ELSE LET rec == Head(records)
       IN  CollectIndexes(
             IF rec.labelsOrTypes # <<>> /\ rec.properties # <<>>
               THEN Append(ixs, [name       |-> rec.name,
                                 type       |-> rec.type,
                                 entityType |-> Lower(rec.entityType),
                                 labels     |-> rec.labelsOrTypes,
                                 properties |-> rec.properties])
               ELSE ixs,
             Tail(records))

\* the loop over the records of CALL db.indexes(); tokenNames[0] of an empty
\* list raises IndexError, which ends the loop like a failing query
RECURSIVE CollectLegacyIndexes(_, _)
CollectLegacyIndexes(ixs, records) ==
  IF records = <<>> THEN ixs
  ELSE LET rec == Head(records)
       IN  IF rec.tokenNames = <<>> THEN ixs
           ELSE CollectLegacyIndexes(
                  IF rec.tokenNames[1] # <<>> /\ rec.properties # <<>>
                    THEN Append(ixs, [name       |-> rec.indexName,
                                      type       |-> STR_default,
                                      entityType |-> STR_node,
                                      labels     |-> <<rec.tokenNames[1]>>,
                                      properties |-> rec.properties])
                    ELSE ixs,
                  Tail(records))

\* db_indexes.records are the records SHOW INDEXES yields before it ends
\* ("ok") or raises ("raises"); likewise legacy_records for the fallback.
\* What was appended before a query raises stays in self.indexes
GetIndexes ==
  /\ pc = "indexes"
  /\ LET shown == CollectIndexes(<<>>, db_indexes.records)
     IN  indexes' =
           IF db_indexes.show = "ok" THEN shown
           ELSE CollectLegacyIndexes(shown, db_indexes.legacy_records)
  /\ pc' = "nodes"
  /\ UNCHANGED <<mainVars, dbVars, runVars, constraints, model, arg, ret>>

----------------------------------------------------------------------------
(* Neo4jExporter.export_nodes, one action per outcome of a loop pass       *)

\* [label for label, meta in self.metadata.items() if meta["type"] == kind]
MetadataKeys(kind) ==
  LET hit == SelectSeq(metadata, LAMBDA e : e.value = kind)
  IN  [k \in 1..Len(hit) |-> hit[k].key]

node_labels == MetadataKeys("node")

\* all_properties after the loop over the query result
AllProperties(nodes) == UNION {DOMAIN nodes[k] : k \in 1..Len(nodes)}

\* mutant: only a missing identifier is filtered, '' and 'NULL' are kept
NodesWithId_OnlyNone(nodes, identifier) ==
  Positions([k \in 1..Len(nodes) |-> Get(nodes[k], identifier) # None])

\* the positions of the records appended to nodes_with_id
NodesWithId(nodes, identifier) ==
  Positions([k \in 1..Len(nodes) |-> ~IsNullValue(Get(nodes[k], identifier))])

\* mutant: the identifier is not taken out of the other properties
NodeColumns_KeepIdentifier(identifier, all_properties) ==
  <<identifier>> \o Sorted(all_properties)

\* sorted_properties = [identifier]
\* sorted_properties.extend(sorted(p for p in all_properties if p != identifier))
NodeColumns(identifier, all_properties) ==
  <<identifier>> \o Sorted({p \in all_properties : p # identifier})

\* mutant: the identifiers of the labels resolved before are dropped
SetIdentifier_Forget(ids, label, identifier) == Dict1(label, identifier)

\* mutant: key and value are swapped
SetIdentifier_Swapped(ids, label, identifier) == Dict1(identifier, label) @@ ids

\* self.label_identifiers[label] = identifier
SetIdentifier(ids, label, identifier) == Dict1(label, identifier) @@ ids

\* if not nodes: continue
ExportNodesEmpty ==
  /\ pc = "nodes"
  /\ idx <= Len(node_labels)
  /\ MatchNodes(node_labels[idx]) = <<>>
  /\ idx' = idx + 1
  /\ UNCHANGED <<mainVars, dbVars, docVars, metadata, unique_constraints, label_identifiers, files,
                 node_files, rel_files, nodes_with_id, relationships, patterns,
                 arg, ret, pc>>

\* _determine_identifier raises ValueError, which nothing up to main catches
ExportNodesRaise ==
  /\ pc = "nodes"
  /\ idx <= Len(node_labels)
  /\ LET label == node_labels[idx]
         nodes == MatchNodes(label)
     IN  /\ nodes # <<>>
         /\ determine_identifier(unique_constraints, label,
                                 Sorted(AllProperties(nodes)), nodes) = ValueError
  /\ pc' = "raised"
  /\ UNCHANGED <<mainVars, dbVars, docVars, runVars, arg, ret>>

ExportNodesWrite ==
  /\ pc = "nodes"
  /\ idx <= Len(node_labels)
  /\ LET label == node_labels[idx]
         nodes == MatchNodes(label)
         all_properties == AllProperties(nodes)
         identifier == determine_identifier(unique_constraints, label,
                                            Sorted(all_properties), nodes)
         kept == NodesWithId(nodes, identifier)
         sorted_properties == NodeColumns(identifier, all_properties)
     IN  /\ nodes # <<>>
         /\ identifier # ValueError
         /\ label_identifiers' = SetIdentifier(label_identifiers, label, identifier)
         /\ nodes_with_id' = Dict1(label, kept) @@ nodes_with_id
         /\ files' = Dict1(label \o Csv,
                           CsvFile(sorted_properties,
                                   [k \in 1..Len(kept) |-> nodes[kept[k]]])) @@ files
         /\ node_files' = DictSet(node_files, label, sorted_properties)
  /\ idx' = idx + 1
  /\ UNCHANGED <<mainVars, dbVars, docVars, metadata, unique_constraints, rel_files, relationships,
                 patterns, arg, ret, pc>>

\* return exported_files
ExportNodesReturn ==
  /\ pc = "nodes"
  /\ idx > Len(node_labels)
  /\ pc' = "rels"
  /\ UNCHANGED <<mainVars, dbVars, docVars, runVars, arg, ret>>

----------------------------------------------------------------------------
(* Neo4jExporter.export_relationships                                      *)

rel_types == MetadataKeys("relationship")

\* the pattern discovery loop
DiscoverPatterns ==
  /\ pc = "rels"
  /\ patterns' = Flatten([k \in 1..Len(rel_types) |-> MatchPatterns(rel_types[k])])
  /\ idx' = 1
  /\ pc' = "patterns"
  /\ UNCHANGED <<mainVars, dbVars, docVars, metadata, unique_constraints, label_identifiers, files,
                 node_files, rel_files, nodes_with_id, relationships, arg, ret>>

\* f"{source_label}_{rel_type}_{target_label}"
PatternKey(pattern) == pattern[1] \o Us \o pattern[2] \o Us \o pattern[3]

\* self.label_identifiers.get(label)
IdentifierOf(label) ==
  IF label \in DOMAIN label_identifiers THEN label_identifiers[label] ELSE NoName

\* not source_id_prop or not target_id_prop: None and '' are falsy
Missing(id_prop) == id_prop = NoName \/ id_prop = <<>>

\* mutant: the self-relationship test is missing
SourceColName_NoSuffix(source_label, target_label, source_id_prop, target_id_prop) ==
  source_label \o <<"_">> \o source_id_prop

\* the column names of the two endpoints
SourceColName(source_label, target_label, source_id_prop, target_id_prop) ==
  IF source_label = target_label /\ source_id_prop = target_id_prop
    THEN source_label \o Us \o source_id_prop \o SourceSuffix
    ELSE source_label \o Us \o source_id_prop

TargetColName(source_label, target_label, source_id_prop, target_id_prop) ==
  IF source_label = target_label /\ source_id_prop = target_id_prop
    THEN target_label \o Us \o target_id_prop \o TargetSuffix
    ELSE target_label \o Us \o target_id_prop

\* mutant: only the source identifier is tested
KeptRelationships_SourceOnly(records, source_id_prop, target_id_prop) ==
  Positions([k \in 1..Len(records) |->
               ~IsNullValue(Get(records[k].source, source_id_prop))])

\* the positions of the records that are not skipped for a NULL identifier
KeptRelationships(records, source_id_prop, target_id_prop) ==
  Positions([k \in 1..Len(records) |->
               ~(IsNullValue(Get(records[k].source, source_id_prop))
                   \/ IsNullValue(Get(records[k].target, target_id_prop)))])

\* rel_data = {source_col_name: ..., target_col_name: ...}; rel_data.update(rel)
\* (in a dict display the later of two equal keys wins, and update overwrites)
RelData(rec, source_col_name, target_col_name, source_id_prop, target_id_prop) ==
  rec.r @@ Dict1(target_col_name, Get(rec.target, target_id_prop))
        @@ Dict1(source_col_name, Get(rec.source, source_id_prop))

\* mutant: the endpoint columns are sorted with the properties
RelColumns_SortedAll(source_col_name, target_col_name, rel_properties) ==
  Sorted({source_col_name, target_col_name} \cup rel_properties)

\* sorted_properties = [source_col_name, target_col_name] + sorted(rel_properties)
RelColumns(source_col_name, target_col_name, rel_properties) ==
  <<source_col_name, target_col_name>> \o Sorted(rel_properties)

\* mutant: the loop is left at the first pattern without an identifier
ExportPatternSkip_Break ==
  /\ pc = "patterns"
  /\ idx <= Len(patterns)
  /\ \/ Missing(IdentifierOf(patterns[idx][1]))
     \/ Missing(IdentifierOf(patterns[idx][3]))
  /\ idx' = Len(patterns) + 1
  /\ UNCHANGED <<mainVars, dbVars, docVars, metadata, unique_constraints, label_identifiers, files,
                 node_files, rel_files, nodes_with_id, relationships, patterns,
                 arg, ret, pc>>

\* if not source_id_prop or not target_id_prop: continue
ExportPatternSkip ==
  /\ pc = "patterns"
  /\ idx <= Len(patterns)
  /\ \/ Missing(IdentifierOf(patterns[idx][1]))
     \/ Missing(IdentifierOf(patterns[idx][3]))
  /\ idx' = idx + 1
  /\ UNCHANGED <<mainVars, dbVars, docVars, metadata, unique_constraints, label_identifiers, files,
                 node_files, rel_files, nodes_with_id, relationships, patterns,
                 arg, ret, pc>>

\* if not relationships: continue
ExportPatternEmpty ==
  /\ pc = "patterns"
  /\ idx <= Len(patterns)
  /\ LET source_id_prop == IdentifierOf(patterns[idx][1])
         target_id_prop == IdentifierOf(patterns[idx][3])
     IN  /\ ~Missing(source_id_prop)
         /\ ~Missing(target_id_prop)
         /\ KeptRelationships(MatchRelationships(patterns[idx][1], patterns[idx][2],
                                                 patterns[idx][3]),
                              source_id_prop, target_id_prop) = <<>>
  /\ idx' = idx + 1
  /\ UNCHANGED <<mainVars, dbVars, docVars, metadata, unique_constraints, label_identifiers, files,
                 node_files, rel_files, nodes_with_id, relationships, patterns,
                 arg, ret, pc>>

ExportPatternWrite ==
  /\ pc = "patterns"
  /\ idx <= Len(patterns)
  /\ LET source_label == patterns[idx][1]
         rel_type == patterns[idx][2]
         target_label == patterns[idx][3]
         pattern_key == PatternKey(patterns[idx])
         source_id_prop == IdentifierOf(source_label)
         target_id_prop == IdentifierOf(target_label)
     IN  /\ ~Missing(source_id_prop)
         /\ ~Missing(target_id_prop)
         /\ LET source_col_name == SourceColName(source_label, target_label,
                                                 source_id_prop, target_id_prop)
                target_col_name == TargetColName(source_label, target_label,
                                                 source_id_prop, target_id_prop)
                records == MatchRelationships(source_label, rel_type, target_label)
                kept == KeptRelationships(records, source_id_prop, target_id_prop)
                rows == [k \in 1..Len(kept) |->
                           RelData(records[kept[k]], source_col_name, target_col_name,
                                   source_id_prop, target_id_prop)]
                rel_properties == UNION {DOMAIN records[kept[k]].r : k \in 1..Len(kept)}
                sorted_properties == RelColumns(source_col_name, target_col_name,
                                                rel_properties)
            IN  /\ kept # <<>>
                /\ relationships' = Dict1(pattern_key, kept) @@ relationships
                /\ files' = Dict1(pattern_key \o Csv, CsvFile(sorted_properties, rows))
                              @@ files
                /\ rel_files' = DictSet(rel_files, pattern_key,
                     [rel_type        |-> rel_type,
                      all_properties  |-> sorted_properties,
                      rel_properties  |-> Sorted(rel_properties),
                      source_label    |-> source_label,
                      target_label    |-> target_label,
                      source_id_prop  |-> source_id_prop,
                      target_id_prop  |-> target_id_prop,
                      source_col_name |-> source_col_name,
                      target_col_name |-> target_col_name])
  /\ idx' = idx + 1
  /\ UNCHANGED <<mainVars, dbVars, docVars, metadata, unique_constraints, label_identifiers,
                 node_files, nodes_with_id, patterns, arg, ret, pc>>

\* return exported_files
ExportRelationshipsReturn ==
  /\ pc = "patterns"
  /\ idx > Len(patterns)
  /\ pc' = "done"
  /\ UNCHANGED <<mainVars, dbVars, docVars, runVars, arg, ret>>

----------------------------------------------------------------------------
(* Neo4jExporter._infer_type                                               *)

STR_NULL     == <<"N", "U", "L", "L">>
STR_true     == <<"t", "r", "u", "e">>
STR_false    == <<"f", "a", "l", "s", "e">>
STR_inf      == <<"i", "n", "f">>
STR_infinity == <<"i", "n", "f", "i", "n", "i", "t", "y">>
STR_nan      == <<"n", "a", "n">>

IsDigit(c) == c \in {"0", "1", "2", "3", "4", "5", "6", "7", "8", "9"}

\* decimal digits with single underscores between digits, as int() and
\* float() accept them
DigitGroups(s) ==
  /\ s # <<>>
  /\ IsDigit(s[1])
  /\ IsDigit(s[Len(s)])
  /\ \A k \in 1..Len(s) : IsDigit(s[k]) \/ s[k] = "_"
  /\ \A k \in 1..(Len(s) - 1) : ~(s[k] = "_" /\ s[k + 1] = "_")

\* s without one leading sign
Unsigned(s) == IF s # <<>> /\ s[1] \in {"+", "-"} THEN Tail(s) ELSE s

\* int(value) returns: surrounding whitespace, one sign, digit groups
IntLiteral(value) == DigitGroups(Unsigned(Strip(value)))

\* digits, or digits with one point that has digits on a side at least
Mantissa(s) ==
  LET parts == Split(s, ".")
  IN  \/ Len(parts) = 1 /\ DigitGroups(s)
      \/ /\ Len(parts) = 2
         /\ parts[1] = <<>> \/ DigitGroups(parts[1])
         /\ parts[2] = <<>> \/ DigitGroups(parts[2])
         /\ parts[1] # <<>> \/ parts[2] # <<>>

\* float(value) returns: surrounding whitespace, one sign, then inf,
\* infinity or nan in any case, or a mantissa with an optional exponent
FloatLiteral(value) ==
  LET body == Unsigned(Strip(value))
      low   == Lower(body)
      parts == Split(low, "e")
  IN  \/ low \in {STR_inf, STR_infinity, STR_nan}
      \/ Len(parts) = 1 /\ Mantissa(low)
      \/ /\ Len(parts) = 2
         /\ Mantissa(parts[1])
         /\ DigitGroups(Unsigned(parts[2]))

\* mutant: the float parse is tried before the integer parse
infer_type_FloatFirst(value) ==
  IF value = <<>> \/ value = STR_NULL THEN "string"
  ELSE IF FloatLiteral(value) THEN "float"
  ELSE IF IntLiteral(value) THEN "integer"
  ELSE IF Lower(value) \in {STR_true, STR_false} THEN "boolean"
  ELSE "string"

infer_type(value) ==
  IF value = <<>> \/ value = STR_NULL THEN "string"
  ELSE IF IntLiteral(value) THEN "integer"
  ELSE IF FloatLiteral(value) THEN "float"
  ELSE IF Lower(value) \in {STR_true, STR_false} THEN "boolean"
  ELSE "string"

----------------------------------------------------------------------------
(* What the three generators share                                         *)

\* str(n) for a natural number
RECURSIVE Str(_)
Str(n) ==
  LET digits == <<"0", "1", "2", "3", "4", "5", "6", "7", "8", "9">>
  IN  IF n < 10 THEN <<digits[n + 1]>>
      ELSE Str(n \div 10) \o <<digits[(n % 10) + 1]>>

\* f"#{token}"
Ref(token) == <<"#">> \o token

\* the characters of the property values of the model
ValueChars(v) ==
  CASE v = ""     -> <<>>
    [] v = "NULL" -> STR_NULL
    [] v = "n"    -> <<"n">>
    [] OTHER      -> <<v>>

\* d.get(key, default)
GetOr(d, key, default) == IF key \in DOMAIN d THEN d[key] ELSE default

\* next(csv.DictReader(f), {}) on a file of the output directory, {} when
\* the file cannot be opened: the first row as a dict, the last of several
\* columns of one name giving the value
ReadFirstRow(filename) ==
  IF filename \in DOMAIN files /\ files[filename].rows # <<>>
    THEN LET header == files[filename].header
             row    == files[filename].rows[1]
         IN  [name \in Range(header) |->
                row[CHOOSE c \in 1..Len(header) :
                      /\ header[c] = name
                      /\ \A later \in (c + 1)..Len(header) : header[later] # name]]
    ELSE EmptyDict

\* self._infer_type(sample_data.get(prop, ""))
SampleType(sample_data, prop) == infer_type(ValueChars(GetOr(sample_data, prop, "")))

\* a property definition of the formats 3.0 and 2.4.0
PropertyDef(prop_id, prop, sample_data) ==
  [id       |-> prop_id,
   token    |-> prop,
   type     |-> SampleType(sample_data, prop),
   nullable |-> IsNullValue(Get(sample_data, prop))]

\* a field of a table schema; str(value)[:50] is the value, every value
\* of the model being shorter than 50 characters
TableField(field, sample_data) ==
  [name            |-> field,
   sample          |-> GetOr(sample_data, field, ""),
   recommendedType |-> SampleType(sample_data, field)]

\* the visualisation position of the node with index node_idx
Position(node_idx) == [x |-> 300 * (node_idx % 3) - 300, y |-> 300 * (node_idx \div 3)]

\* the position of label in node_files, 0 when it is not a key
LabelIndex(nf, label) ==
  IF \E k \in 1..Len(nf) : nf[k].key = label
    THEN CHOOSE k \in 1..Len(nf) : nf[k].key = label
    ELSE 0

\* the position of prop in a column list (the last one, as a dict keeps
\* the last assignment), 0 when it is not a column
ColumnIndex(properties, prop) ==
  IF \E j \in 1..Len(properties) : properties[j] = prop
    THEN CHOOSE j \in 1..Len(properties) :
           /\ properties[j] = prop
           /\ \A later \in (j + 1)..Len(properties) : properties[later] # prop
    ELSE 0

\* the number of columns of the labels before position k
RECURSIVE PropsBefore(_, _)
PropsBefore(nf, k) ==
  IF k <= 1 THEN 0 ELSE PropsBefore(nf, k - 1) + Len(nf[k - 1].value)

\* mutant: the key is the first column in sorted order
KeyPropName_Sorted(label, properties) ==
  IF properties # <<>> THEN Sorted(Range(properties))[1] ELSE NoName

\* the name of the key property of a label: the first property of its
\* constraint when that is a column, else the first column, else None
KeyPropName(label, properties) ==
  IF /\ label \in DOMAIN unique_constraints
     /\ unique_constraints[label] # <<>>
     /\ ColumnIndex(properties, unique_constraints[label][1]) # 0
    THEN unique_constraints[label][1]
  ELSE IF properties # <<>> THEN properties[1]
  ELSE NoName

----------------------------------------------------------------------------
(* Neo4jExporter._generate_model_v3_0                                      *)

\* mutant: the property token does not name the node
PropId30_NoNode(k, j) == <<"p", ":">> \o Str(j - 1)

\* f"n:{node_idx}", f"nl:{node_idx}", f"p:{node_idx}_{prop_idx}", f"c:{node_idx}"
NodeVizId30(k)   == <<"n", ":">> \o Str(k - 1)
\* mutant: the label takes the token of the node
NodeLabelId30_Same(k) == NodeVizId30(k)
NodeLabelId30(k) == <<"n", "l", ":">> \o Str(k - 1)
PropId30(k, j)   == <<"p", ":">> \o Str(k - 1) \o <<"_">> \o Str(j - 1)
ConstraintId30(k) == <<"c", ":">> \o Str(k - 1)

\* property_id_map.get((label, prop))
PropertyId30(nf, label, prop) ==
  LET k == LabelIndex(nf, label)
      j == IF k = 0 THEN 0 ELSE ColumnIndex(nf[k].value, prop)
  IN  IF j = 0 THEN NoName ELSE PropId30(k, j)

\* key_prop_id of the label at position k
KeyPropId30(nf, k) ==
  LET name == KeyPropName(nf[k].key, nf[k].value)
  IN  IF name = NoName THEN NoName ELSE PropertyId30(nf, nf[k].key, name)

\* mutant: a relationship type schema is created for every pattern
TypeIsNew_Always(rel_type_tokens, rel_type) == TRUE

\* if rel_type not in rel_type_tokens
TypeIsNew(rel_type_tokens, rel_type) == rel_type \notin DOMAIN rel_type_tokens

\* the loop over rel_files.items(); st carries the local variables of the
\* function, among them sample_data, which is assigned only for a pattern
\* whose relationship type is met for the first time
RECURSIVE RelLoop30(_, _, _, _)
RelLoop30(nf, rf, k, st) ==
  IF k > Len(rf) THEN st
  ELSE
    LET rel_info     == rf[k].value
        rel_type     == rel_info.rel_type
        source_label == rel_info.source_label
        target_label == rel_info.target_label
        source_k     == LabelIndex(nf, source_label)
        target_k     == LabelIndex(nf, target_label)
    IN  IF source_k = 0 \/ target_k = 0 THEN RelLoop30(nf, rf, k + 1, st)
        ELSE
          LET first       == TypeIsNew(st.rel_type_tokens, rel_type)
              rel_type_id == IF first THEN <<"r", "t", ":">> \o Str(st.rel_type_id_counter)
                             ELSE st.rel_type_tokens[rel_type]
              type_count  == IF first THEN st.rel_type_id_counter + 1
                             ELSE st.rel_type_id_counter
              filename    == source_label \o Us \o rel_type \o Us \o target_label \o Csv
              sample_data == IF first THEN ReadFirstRow(filename) ELSE st.sample_data
              rel_props   == [j \in 1..Len(rel_info.rel_properties) |->
                                PropertyDef(<<"p", ":", "r">> \o Str(type_count) \o <<"_">>
                                              \o Str(j - 1),
                                            rel_info.rel_properties[j], sample_data)]
              rel_obj_id  == <<"r", ":">> \o Str(st.rel_obj_id_counter)
              source_prop_id == PropertyId30(nf, source_label, rel_info.source_id_prop)
              target_prop_id == PropertyId30(nf, target_label, rel_info.target_id_prop)
              from_mappings ==
                IF /\ ~Missing(rel_info.source_id_prop) /\ ~Missing(rel_info.source_col_name)
                   /\ source_prop_id # NoName
                  THEN Dict1(Ref(source_prop_id), rel_info.source_col_name)
                  ELSE EmptyDict
              to_mappings ==
                IF /\ ~Missing(rel_info.target_id_prop) /\ ~Missing(rel_info.target_col_name)
                   /\ target_prop_id # NoName
                  THEN Dict1(Ref(target_prop_id), rel_info.target_col_name)
                  ELSE EmptyDict
          IN  RelLoop30(nf, rf, k + 1,
                [rel_type_tokens     |-> IF first
                                           THEN Dict1(rel_type, rel_type_id)
                                                  @@ st.rel_type_tokens
                                           ELSE st.rel_type_tokens,
                 rel_type_id_counter |-> type_count,
                 rel_obj_id_counter  |-> st.rel_obj_id_counter + 1,
                 sample_data         |-> sample_data,
                 relationshipTypes   |->
                   IF first
                     THEN Append(st.relationshipTypes,
                                 [id |-> rel_type_id, token |-> rel_type,
                                  properties |-> rel_props])
                     ELSE st.relationshipTypes,
                 relationshipObjectTypes |->
                   Append(st.relationshipObjectTypes,
                          [id   |-> rel_obj_id,
                           type |-> Ref(rel_type_id),
                           from |-> Ref(NodeVizId30(source_k)),
                           to   |-> Ref(NodeVizId30(target_k))]),
                 relationshipMappings |->
                   Append(st.relationshipMappings,
                          [relationship     |-> Ref(rel_obj_id),
                           tableName        |-> filename,
                           fromMappings     |-> from_mappings,
                           toMappings       |-> to_mappings,
                           propertyMappings |-> <<>>]),
                 tableSchemas |->
                   Append(st.tableSchemas,
                          [name     |-> filename,
                           expanded |-> TRUE,
                           fields   |-> [c \in 1..Len(rel_info.all_properties) |->
                                           TableField(rel_info.all_properties[c],
                                                      sample_data)]])])

generate_model_v3_0(nf, rf) ==
  LET sample(k) == ReadFirstRow(nf[k].key \o Csv)
      keyed     == {k \in 1..Len(nf) : KeyPropId30(nf, k) # NoName}
      rels == RelLoop30(nf, rf, 1,
                [rel_type_tokens     |-> EmptyDict,
                 rel_type_id_counter |-> 0,
                 rel_obj_id_counter  |-> 0,
                 sample_data         |-> IF nf = <<>> THEN EmptyDict ELSE sample(Len(nf)),
                 relationshipTypes   |-> <<>>,
                 relationshipObjectTypes |-> <<>>,
                 relationshipMappings |-> <<>>,
                 tableSchemas |->
                   [k \in 1..Len(nf) |->
                      [name     |-> nf[k].key \o Csv,
                       expanded |-> FALSE,
                       fields   |-> [j \in 1..Len(nf[k].value) |->
                                       TableField(nf[k].value[j], sample(k))]]]])
  IN  [version |-> "3.0.0",
       visualisation |->
         [k \in 1..Len(nf) |-> [id |-> NodeVizId30(k), position |-> Position(k - 1)]],
       nodeLabels |->
         [k \in 1..Len(nf) |->
            [id         |-> NodeLabelId30(k),
             token      |-> nf[k].key,
             properties |-> [j \in 1..Len(nf[k].value) |->
                               PropertyDef(PropId30(k, j), nf[k].value[j], sample(k))]]],
       relationshipTypes |-> rels.relationshipTypes,
       nodeObjectTypes |->
         [k \in 1..Len(nf) |->
            [id |-> NodeVizId30(k), labels |-> <<Ref(NodeLabelId30(k))>>]],
       relationshipObjectTypes |-> rels.relationshipObjectTypes,
       constraints |->
         LET hit == SelectSeq([k \in 1..Len(nf) |-> k], LAMBDA k : k \in keyed)
         IN  [m \in 1..Len(hit) |->
                [id             |-> ConstraintId30(hit[m]),
                 name           |-> nf[hit[m]].value[1] \o Us \o nf[hit[m]].key
                                      \o <<"_", "u", "n", "i", "q">>,
                 constraintType |-> STR_uniqueness,
                 entityType     |-> STR_node,
                 nodeLabel      |-> Ref(NodeLabelId30(hit[m])),
                 properties     |-> <<Ref(KeyPropId30(nf, hit[m]))>>]],
       indexes |-> <<>>,
       nodeKeyProperties |->
         LET hit == SelectSeq([k \in 1..Len(nf) |-> k], LAMBDA k : k \in keyed)
         IN  [m \in 1..Len(hit) |->
                [node          |-> Ref(NodeVizId30(hit[m])),
                 keyProperties |-> <<Ref(KeyPropId30(nf, hit[m]))>>]],
       tableSchemas |-> rels.tableSchemas,
       nodeMappings |->
         [k \in 1..Len(nf) |->
            [node             |-> Ref(NodeVizId30(k)),
             propertyMappings |-> [j \in 1..Len(nf[k].value) |->
                                     [property  |-> Ref(PropertyId30(nf, nf[k].key,
                                                                     nf[k].value[j])),
                                      fieldName |-> nf[k].value[j]]],
             tableName        |-> nf[k].key \o Csv]],
       relationshipMappings |-> rels.relationshipMappings]

----------------------------------------------------------------------------
(* Neo4jExporter._generate_model_v2_4                                      *)

\* f"n:n{idx}", f"nl:n{idx}", f"p:{property_counter}"
NodeVizId24(k)   == <<"n", ":", "n">> \o Str(k - 1)
NodeLabelId24(k) == <<"n", "l", ":", "n">> \o Str(k - 1)
PropId24(counter) == <<"p", ":">> \o Str(counter)

\* mutant: the counter is read after the increment of the property before
PropertyId24_OffByOne(nf, label, prop) ==
  LET k == LabelIndex(nf, label)
      j == IF k = 0 THEN 0 ELSE ColumnIndex(nf[k].value, prop)
  IN  IF j = 0 THEN NoName ELSE PropId24(PropsBefore(nf, k) + j - 1)

\* property_id_map.get((label, prop)): property_counter starts at 1 and
\* counts the columns of all labels in order
PropertyId24(nf, label, prop) ==
  LET k == LabelIndex(nf, label)
      j == IF k = 0 THEN 0 ELSE ColumnIndex(nf[k].value, prop)
  IN  IF j = 0 THEN NoName ELSE PropId24(PropsBefore(nf, k) + j)

KeyPropId24(nf, k) ==
  LET name == KeyPropName(nf[k].key, nf[k].value)
  IN  IF name = NoName THEN NoName ELSE PropertyId24(nf, nf[k].key, name)

\* a relationship mapping has fromMappings and toMappings only when they
\* are not empty
RelMapping24(rel_type_id, rel_props, filename, from_mappings, to_mappings) ==
  LET property_mappings == [j \in 1..Len(rel_props) |->
                              [property  |-> Ref(rel_props[j].id),
                               fieldName |-> rel_props[j].token]]
  IN  CASE from_mappings # EmptyDict /\ to_mappings # EmptyDict ->
             [relationship |-> Ref(rel_type_id), propertyMappings |-> property_mappings,
              tableName |-> filename, fromMappings |-> from_mappings,
              toMappings |-> to_mappings]
        [] from_mappings # EmptyDict /\ to_mappings = EmptyDict ->
             [relationship |-> Ref(rel_type_id), propertyMappings |-> property_mappings,
              tableName |-> filename, fromMappings |-> from_mappings]
        [] from_mappings = EmptyDict /\ to_mappings # EmptyDict ->
             [relationship |-> Ref(rel_type_id), propertyMappings |-> property_mappings,
              tableName |-> filename, toMappings |-> to_mappings]
        [] OTHER ->
             [relationship |-> Ref(rel_type_id), propertyMappings |-> property_mappings,
              tableName |-> filename]

\* the loop over rel_files.items(): rel_id_counter is k - 1, and
\* property_counter goes on from the node properties
RECURSIVE RelLoop24(_, _, _, _)
RelLoop24(nf, rf, k, st) ==
  IF k > Len(rf) THEN st
  ELSE
    LET rel_info     == rf[k].value
        rel_type     == rel_info.rel_type
        source_label == rel_info.source_label
        target_label == rel_info.target_label
        rel_type_id  == <<"r", ":", "n">> \o Str(k - 1)
        source_k     == LabelIndex(nf, source_label)
        target_k     == LabelIndex(nf, target_label)
    IN  IF source_k = 0 \/ target_k = 0 THEN RelLoop24(nf, rf, k + 1, st)
        ELSE
          LET sample_data == ReadFirstRow(rel_type \o Csv)
              rel_props   == [j \in 1..Len(rel_info.rel_properties) |->
                                PropertyDef(PropId24(st.property_counter + j - 1),
                                            rel_info.rel_properties[j], sample_data)]
              source_prop_id == PropertyId24(nf, source_label, rel_info.source_id_prop)
              target_prop_id == PropertyId24(nf, target_label, rel_info.target_id_prop)
              from_mappings ==
                IF /\ ~Missing(rel_info.source_id_prop) /\ ~Missing(rel_info.source_col_name)
                   /\ source_prop_id # NoName
                  THEN Dict1(source_prop_id, rel_info.source_col_name)
                  ELSE EmptyDict
              to_mappings ==
                IF /\ ~Missing(rel_info.target_id_prop) /\ ~Missing(rel_info.target_col_name)
                   /\ target_prop_id # NoName
                  THEN Dict1(target_prop_id, rel_info.target_col_name)
                  ELSE EmptyDict
              filename == source_label \o Us \o rel_type \o Us \o target_label \o Csv
          IN  RelLoop24(nf, rf, k + 1,
                [property_counter  |-> st.property_counter + Len(rel_info.rel_properties),
                 relationshipTypes |->
                   Append(st.relationshipTypes,
                          [id         |-> rel_type_id,
                           token      |-> rel_type,
                           from       |-> Ref(NodeLabelId24(source_k)),
                           to         |-> Ref(NodeLabelId24(target_k)),
                           properties |-> rel_props]),
                 relationshipMappings |->
                   Append(st.relationshipMappings,
                          RelMapping24(rel_type_id, rel_props, filename,
                                       from_mappings, to_mappings)),
                 tableSchemas |->
                   Append(st.tableSchemas,
                          [name     |-> filename,
                           expanded |-> FALSE,
                           fields   |-> [c \in 1..Len(rel_info.all_properties) |->
                                           TableField(rel_info.all_properties[c],
                                                      sample_data)]])])

\* the references to the properties of an index or constraint that are
\* columns of its label
PropertyRefs24(nf, label, properties) ==
  LET ids == [j \in 1..Len(properties) |-> PropertyId24(nf, label, properties[j])]
      hit == SelectSeq(ids, LAMBDA prop_id : prop_id # NoName)
  IN  [j \in 1..Len(hit) |-> Ref(hit[j])]

\* the loop over self.indexes; counter is index_counter
RECURSIVE IndexLoop24(_, _, _, _)
IndexLoop24(nf, infos, counter, out) ==
  IF infos = <<>> THEN out
  ELSE
    LET index_info == Head(infos)
        label      == index_info.labels[1]
        label_k    == LabelIndex(nf, label)
        refs       == PropertyRefs24(nf, label, index_info.properties)
    IN  IF index_info.entityType = STR_node /\ label_k # 0 /\ refs # <<>>
          THEN IndexLoop24(nf, Tail(infos), counter + 1,
                 Append(out,
                        [id         |-> <<"i", ":">> \o Str(counter),
                         name       |-> index_info.name,
                         indexType  |-> IF index_info.type # STR_RANGE
                                          THEN index_info.type ELSE STR_default,
                         entityType |-> STR_node,
                         nodeLabel  |-> Ref(NodeLabelId24(label_k)),
                         properties |-> refs]))
          ELSE IndexLoop24(nf, Tail(infos), counter, out)

\* the loop over self.constraints; counter is constraint_counter
RECURSIVE ConstraintLoop24(_, _, _, _)
ConstraintLoop24(nf, infos, counter, out) ==
  IF infos = <<>> THEN out
  ELSE
    LET constraint_info == Head(infos)
        label           == constraint_info.labels[1]
        label_k         == LabelIndex(nf, label)
        refs            == PropertyRefs24(nf, label, constraint_info.properties)
    IN  IF constraint_info.entityType = STR_node /\ label_k # 0 /\ refs # <<>>
          THEN ConstraintLoop24(nf, Tail(infos), counter + 1,
                 Append(out,
                        [id             |-> <<"c", ":">> \o Str(counter),
                         name           |-> constraint_info.name,
                         constraintType |-> constraint_info.type,
                         entityType     |-> STR_node,
                         nodeLabel      |-> Ref(NodeLabelId24(label_k)),
                         properties     |-> refs]))
          ELSE ConstraintLoop24(nf, Tail(infos), counter, out)

generate_model_v2_4(nf, rf) ==
  LET sample(k) == ReadFirstRow(nf[k].key \o Csv)
      keyed     == {k \in 1..Len(nf) : KeyPropId24(nf, k) # NoName}
      rels == RelLoop24(nf, rf, 1,
                [property_counter  |-> 1 + PropsBefore(nf, Len(nf) + 1),
                 relationshipTypes |-> <<>>,
                 relationshipMappings |-> <<>>,
                 tableSchemas |->
                   [k \in 1..Len(nf) |->
                      [name     |-> nf[k].key \o Csv,
                       expanded |-> FALSE,
                       fields   |-> [j \in 1..Len(nf[k].value) |->
                                       TableField(nf[k].value[j], sample(k))]]]])
  IN  [version |-> "2.4.0-beta.0",
       visualisation |->
         [k \in 1..Len(nf) |-> [id |-> NodeVizId24(k), position |-> Position(k - 1)]],
       nodeLabels |->
         [k \in 1..Len(nf) |->
            [id         |-> NodeLabelId24(k),
             token      |-> nf[k].key,
             properties |-> [j \in 1..Len(nf[k].value) |->
                               PropertyDef(PropId24(PropsBefore(nf, k) + j),
                                           nf[k].value[j], sample(k))]]],
       relationshipTypes |-> rels.relationshipTypes,
       indexes     |-> IndexLoop24(nf, indexes, 1, <<>>),
       constraints |-> ConstraintLoop24(nf, constraints, 0, <<>>),
       nodeKeyProperties |->
         LET hit == SelectSeq([k \in 1..Len(nf) |-> k], LAMBDA k : k \in keyed)
         IN  [m \in 1..Len(hit) |->
                [node          |-> Ref(NodeVizId24(hit[m])),
                 keyProperties |-> <<Ref(KeyPropId24(nf, hit[m]))>>]],
       tableSchemas |-> rels.tableSchemas,
       nodeMappings |->
         [k \in 1..Len(nf) |->
            [node             |-> Ref(NodeVizId24(k)),
             propertyMappings |-> [j \in 1..Len(nf[k].value) |->
                                     [property  |-> Ref(PropertyId24(nf, nf[k].key,
                                                                     nf[k].value[j])),
                                      fieldName |-> nf[k].value[j]]],
             tableName        |-> nf[k].key \o Csv]],
       relationshipMappings |-> rels.relationshipMappings]

----------------------------------------------------------------------------
(* Neo4jExporter._generate_model_v0_1                                      *)

\* f"n{idx}", for nodes and for relationships
NodeId01(k) == <<"n">> \o Str(k - 1)

\* str(uuid.uuid4()): the n-th value drawn in a call; the values of a call
\* are random and taken to be pairwise distinct
Uuid(n) == [uuid |-> n]

\* a property of a node schema or relationship schema
SchemaProperty(prop, sample_data, n) ==
  [property   |-> prop,
   type       |-> SampleType(sample_data, prop),
   identifier |-> Uuid(n)]

\* key_properties of the label at position k
KeyProperties01(nf, k, node_properties) ==
  LET label == nf[k].key
      named == IF label \in DOMAIN unique_constraints /\ unique_constraints[label] # <<>>
                 THEN SelectSeq(node_properties,
                                LAMBDA prop : prop.property = unique_constraints[label][1])
                 ELSE <<>>
  IN  IF named # <<>> THEN <<named[1].identifier>>
      ELSE IF node_properties # <<>> THEN <<node_properties[1].identifier>>
      ELSE <<>>

\* the loop over rel_files.items(); rel_id is f"n{k - 1}", st.drawn counts
\* the uuid values drawn so far
RECURSIVE RelLoop01(_, _, _, _)
RelLoop01(nf, rf, k, st) ==
  IF k > Len(rf) THEN st
  ELSE
    LET rel_info     == rf[k].value
        rel_type     == rel_info.rel_type
        source_label == rel_info.source_label
        target_label == rel_info.target_label
        rel_id       == NodeId01(k)
        source_k     == LabelIndex(nf, source_label)
        target_k     == LabelIndex(nf, target_label)
    IN  IF source_k = 0 \/ target_k = 0 THEN RelLoop01(nf, rf, k + 1, st)
        ELSE
          LET sample_data == ReadFirstRow(rel_type \o Csv)
              rel_properties == rel_info.rel_properties
              rel_props == [j \in 1..Len(rel_properties) |->
                              SchemaProperty(rel_properties[j], sample_data, st.drawn + j)]
          IN  RelLoop01(nf, rf, k + 1,
                [drawn |-> st.drawn + Len(rel_properties),
                 relationships |->
                   Append(st.relationships,
                          [id |-> rel_id, type |-> rel_type,
                           fromId |-> NodeId01(source_k), toId |-> NodeId01(target_k)]),
                 relationshipSchemas |->
                   Dict1(rel_id, [type             |-> rel_type,
                                  sourceNodeSchema |-> NodeId01(source_k),
                                  targetNodeSchema |-> NodeId01(target_k),
                                  properties       |-> rel_props])
                     @@ st.relationshipSchemas,
                 relationshipMappings |->
                   Dict1(rel_id,
                         [relationshipSchema |-> rel_id,
                          mappings       |-> [j \in 1..Len(rel_properties) |->
                                                [field |-> rel_properties[j]]],
                          sourceMappings |-> IF Missing(rel_info.source_col_name) THEN <<>>
                                             ELSE <<[field |-> rel_info.source_col_name]>>,
                          targetMappings |-> IF Missing(rel_info.target_col_name) THEN <<>>
                                             ELSE <<[field |-> rel_info.target_col_name]>>,
                          fileSchema     |-> source_label \o Us \o rel_type \o Us
                                               \o target_label \o Csv])
                     @@ st.relationshipMappings])

\* a dict assigned key by key in the order of the positions of a sequence:
\* a later value replaces an earlier one of the same key
RECURSIVE DictOf(_)
DictOf(entries) ==
  IF entries = <<>> THEN EmptyDict
  ELSE Dict1(entries[Len(entries)].key, entries[Len(entries)].value)
         @@ DictOf(SubSeq(entries, 1, Len(entries) - 1))

generate_model_v0_1(nf, rf) ==
  LET sample(k) == ReadFirstRow(nf[k].key \o Csv)
      node_properties(k) ==
        [j \in 1..Len(nf[k].value) |->
           SchemaProperty(nf[k].value[j], sample(k), PropsBefore(nf, k) + j)]
      rels == RelLoop01(nf, rf, 1,
                [drawn |-> PropsBefore(nf, Len(nf) + 1),
                 relationships |-> <<>>,
                 relationshipSchemas |-> EmptyDict,
                 relationshipMappings |-> EmptyDict])
  IN  [version |-> "0.1.0-beta.0",
       graph |->
         [nodes |-> [k \in 1..Len(nf) |->
                       [id |-> NodeId01(k), position |-> Position(k - 1),
                        caption |-> nf[k].key]],
          relationships |-> rels.relationships],
       fileSchemas |->
         DictOf([k \in 1..Len(nf) |->
           [key   |-> nf[k].key \o Csv,
            value |-> [expanded |-> FALSE,
                       fields |-> [j \in 1..Len(nf[k].value) |->
                                     [name    |-> nf[k].value[j],
                                      type    |-> SampleType(sample(k), nf[k].value[j]),
                                      sample  |-> GetOr(sample(k), nf[k].value[j], ""),
                                      include |-> TRUE]]]]]),
       nodeSchemas |->
         DictOf([k \in 1..Len(nf) |->
           [key   |-> NodeId01(k),
            value |-> [label      |-> nf[k].key,
                       properties |-> node_properties(k),
                       key        |-> [properties |-> KeyProperties01(nf, k,
                                                                       node_properties(k)),
                                       name       |-> ""]]]]),
       relationshipSchemas |-> rels.relationshipSchemas,
       nodeMappings |->
         DictOf([k \in 1..Len(nf) |->
           [key   |-> NodeId01(k),
            value |-> [nodeSchema |-> NodeId01(k),
                       fileSchema |-> nf[k].key \o Csv,
                       mappings   |-> [j \in 1..Len(nf[k].value) |->
                                         [field |-> nf[k].value[j]]]]]]),
       relationshipMappings |-> rels.relationshipMappings]

----------------------------------------------------------------------------
(* Neo4jExporter.generate_importer_model and the end of export_all         *)

generate_importer_model(nf, rf) ==
  IF format_version = "3.0" THEN generate_model_v3_0(nf, rf)
  ELSE IF format_version = "2.4.0" THEN generate_model_v2_4(nf, rf)
  ELSE generate_model_v0_1(nf, rf)

\* importer_model = self.generate_importer_model(node_files, rel_files);
\* json.dump(importer_model, f)
GenerateImporterModel ==
  /\ pc = "done"
  /\ model' = generate_importer_model(node_files, rel_files)
  /\ pc' = "generated"
  /\ UNCHANGED <<mainVars, dbVars, runVars, indexes, constraints, arg, ret>>

----------------------------------------------------------------------------
(* The inputs of the export run                                            *)

\* bound on the number of nodes of the graph
MaxNodes == 2

Node(labels, props) == [labels |-> labels, props |-> props]

\* the nodes a graph of the model is made of
GraphNodes ==
  {Node(<<Person>>, d) : d \in Dicts(P_id :> {"", "NULL", "1"})}
    \cup {Node(<<Account>>, Dict1(P_id, "3")),
          Node(<<Account>>, Dict1(P_name, "n") @@ Dict1(P_age, "7")),
          Node(<<Account, Person>>, Dict1(P_id, "4") @@ Dict1(P_name, "NULL"))}

NodeLists == UNION {[1..n -> GraphNodes] : n \in 1..MaxNodes}

P_Person_id == Person \o Us \o P_id

\* the properties a relationship of the model can have; the last is named
\* like an endpoint column
RelProps == {EmptyDict, Dict1(P_since, "1"), Dict1(P_Person_id, "9")}

\* a graph has no relationship or one
RelLists(nodes) ==
  {<<>>} \cup {<<[src |-> a, dst |-> b, type |-> t, props |-> d]>> :
                 a \in 1..Len(nodes), b \in 1..Len(nodes),
                 t \in {KNOWS, OWNS}, d \in RelProps}

\* apoc.meta.data(): the labels of the nodes, then the relationship types
MetaRecords(nodes, rels) ==
  Distinct(Flatten([k \in 1..Len(nodes) |->
                      [m \in 1..Len(nodes[k].labels) |->
                         [label |-> nodes[k].labels[m], elementType |-> "node"]]])
           \o [k \in 1..Len(rels) |-> [label |-> rels[k].type,
                                       elementType |-> "relationship"]])

\* a label that apoc.meta.data() reports and no node carries any more
StaleRecord == [label |-> Ghost, elementType |-> "node"]

\* a record of SHOW CONSTRAINTS for a node constraint
ShowRecord(type, label, properties) ==
  [name |-> <<"c", "_">> \o label, type |-> type, entityType |-> STR_NODE,
   labelsOrTypes |-> <<label>>, properties |-> properties]

\* "CONSTRAINT ON ( n:Label ) ASSERT (n.property) IS UNIQUE"
Description(label, property) ==
  <<"C", "O", "N", "S", "T", "R", "A", "I", "N", "T", " ", "O", "N", " ", "(", " ", "n", ":">> \o label \o <<" ", ")", " ", "A", "S", "S", "E", "R", "T", " ", "(", "n", ".">> \o property \o <<")", " ", "I", "S", " ", "U", "N", "I", "Q", "U", "E">>

ConstraintSource(show, records, legacy, descriptions) ==
  [show |-> show, records |-> records, legacy |-> legacy, descriptions |-> descriptions]

NoConstraints == ConstraintSource("ok", <<>>, "ok", <<>>)

ConstraintSources ==
  { NoConstraints,
    ConstraintSource("ok", <<ShowRecord(STR_UNIQUENESS, Person, <<P_ssn>>)>>, "ok", <<>>),
    ConstraintSource("ok", <<ShowRecord(STR_UNIQUENESS, Account, <<P_name, P_age>>)>>,
                     "ok", <<>>),
    ConstraintSource("ok", <<ShowRecord(STR_EXISTENCE, Account, <<P_age>>)>>, "ok", <<>>),
    ConstraintSource("raises", <<>>, "ok", <<Description(Account, P_age)>>),
    ConstraintSource("raises", <<ShowRecord(STR_UNIQUENESS, Person, <<P_ssn>>)>>,
                     "ok", <<Description(Person, P_ssn)>>),
    ConstraintSource("raises", <<>>, "raises", <<>>),
    ConstraintSource("raises", <<ShowRecord(STR_UNIQUENESS, Person, <<P_ssn>>)>>,
                     "raises", <<>>) }

\* a record of SHOW INDEXES
IndexRecord(name, type, entity_type, label, properties) ==
  [name |-> name, type |-> type, entityType |-> entity_type,
   labelsOrTypes |-> <<label>>, properties |-> properties]

\* a record of CALL db.indexes()
LegacyIndexRecord(name, label, properties) ==
  [indexName |-> name, tokenNames |-> <<label>>, properties |-> properties]

IndexSource(show, records, legacy, legacy_records) ==
  [show |-> show, records |-> records, legacy |-> legacy,
   legacy_records |-> legacy_records]

NoIndexes == IndexSource("ok", <<>>, "ok", <<>>)

IX_person  == <<"i", "x", "_", "p">>
IX_account == <<"i", "x", "_", "a">>
IX_knows   == <<"i", "x", "_", "k">>

\* an index on a column of Person; an index on two properties of Account,
\* then one on a relationship type; the first cut off by a failure, with
\* a failing fallback; a failure at once with a working fallback
IndexSources ==
  { NoIndexes,
    IndexSource("ok", <<IndexRecord(IX_person, STR_RANGE, STR_NODE, Person, <<P_id>>)>>,
                "ok", <<>>),
    IndexSource("ok", <<IndexRecord(IX_account, STR_TEXT, STR_NODE, Account,
                                    <<P_name, P_nick>>),
                        IndexRecord(IX_knows, STR_RANGE, STR_RELATIONSHIP, KNOWS,
                                    <<P_since>>)>>,
                "ok", <<>>),
    IndexSource("raises", <<IndexRecord(IX_person, STR_RANGE, STR_NODE, Person, <<P_id>>)>>,
                "raises", <<>>),
    IndexSource("raises", <<>>, "ok", <<LegacyIndexRecord(IX_person, Person, <<P_id>>)>>) }

\* the format versions main accepts
Formats == {"3.0", "2.4.0", "0.1.0"}

\* the graphs with two relationships have two of these nodes
PairNodes ==
  { Node(<<Person>>, Dict1(P_id, "1")),
    Node(<<Account>>, Dict1(P_id, "3")),
    Node(<<Account, Person>>, Dict1(P_id, "4") @@ Dict1(P_name, "NULL")) }

\* two relationships, the first of type KNOWS, the second with up to two
\* properties
RelPairs ==
  {<<[src |-> a, dst |-> b, type |-> KNOWS, props |-> d],
     [src |-> c, dst |-> e, type |-> t, props |-> f]>> :
     a \in 1..2, b \in 1..2, c \in 1..2, e \in 1..2,
     t \in {KNOWS, OWNS}, d \in {EmptyDict, Dict1(P_since, "1")},
     f \in {EmptyDict, Dict1(P_since, "1"),
            Dict1(P_since, "n") @@ Dict1(P_age, "7")}}

\* the labels A and A_b with a relationship of type b_OWNS or KNOWS from A
\* and a relationship of type OWNS from A_b
UnderscoreNodes == <<Node(<<LabelA>>, Dict1(P_b_c, "5")), Node(<<LabelAb>>, Dict1(P_c, "6"))>>

UnderscoreRels ==
  {<<[src |-> 1, dst |-> b, type |-> t, props |-> d],
     [src |-> 2, dst |-> e, type |-> OWNS, props |-> f]>> :
     b \in 1..2, e \in 1..2, t \in {B_OWNS, KNOWS},
     d \in {EmptyDict, Dict1(P_since, "1")}, f \in {EmptyDict, Dict1(P_age, "7")}}

\* apoc.meta.data() is a view of its own on the graph: it can lack a label
\* that MATCH finds (here the first label of a relationship's target)
MetaViews(nodes, rels) ==
  {MetaRecords(nodes, rels)}
    \cup {SelectSeq(MetaRecords(nodes, rels),
                    LAMBDA rec : rec.label # nodes[rels[k].dst].labels[1])
            : k \in 1..Len(rels)}

\* Graphs with or without a relationship and no schema information,
\* exported in the default format; graphs without relationships under every
\* constraint source or every index source, with or without a stale label,
\* in every format; graphs of two nodes and two relationships and no schema
\* information, in every format; graphs of two labels and two relationships
\* whose names contain underscores, in every format
Database ==
  \/ \E nodes \in NodeLists :
       /\ db_nodes = nodes
       /\ \/ /\ db_rels \in RelLists(nodes)
             /\ db_constraints = NoConstraints
             /\ db_indexes = NoIndexes
             /\ db_meta \in MetaViews(nodes, db_rels)
             /\ format_version = "3.0"
          \/ /\ db_rels = <<>>
             /\ \/ db_constraints \in ConstraintSources /\ db_indexes = NoIndexes
                \/ db_constraints = NoConstraints /\ db_indexes \in IndexSources
             /\ \/ db_meta = MetaRecords(nodes, <<>>)
                \/ db_meta = <<StaleRecord>> \o MetaRecords(nodes, <<>>)
             /\ format_version \in Formats
             /\ format_version = "0.1.0" => db_indexes = NoIndexes
  \/ \E nodes \in [1..2 -> PairNodes] :
       /\ db_nodes = nodes
       /\ db_rels \in RelPairs
       /\ db_constraints = NoConstraints
       /\ db_indexes = NoIndexes
       /\ db_meta \in MetaViews(nodes, db_rels)
       /\ format_version \in Formats
  \/ /\ db_nodes = UnderscoreNodes
     /\ db_rels \in UnderscoreRels
     /\ db_constraints = NoConstraints
     /\ db_indexes = NoIndexes
     /\ db_meta = MetaRecords(db_nodes, db_rels)
     /\ format_version \in Formats

\* the run of export_all on an exporter main has constructed
Init ==
  /\ Database
  /\ InTry
  /\ Constructed
  /\ arg = NoCall
  /\ ret = NoName
  /\ pc = "start"

Next ==
  \/ GetGraphMetadata
  \/ GetUniqueConstraints
  \/ GetConstraintsDetailed
  \/ GetIndexes
  \/ ExportNodesEmpty
  \/ ExportNodesRaise
  \/ ExportNodesWrite
  \/ ExportNodesReturn
  \/ DiscoverPatterns
  \/ ExportPatternSkip
  \/ ExportPatternEmpty
  \/ ExportPatternWrite
  \/ ExportRelationshipsReturn
  \/ GenerateImporterModel

Spec == Init /\ [][Next]_vars

----------------------------------------------------------------------------
(* Direct calls of _determine_identifier, on the arguments export_nodes    *)
(* can pass: the sorted union of the keys of a non-empty list of records   *)

\* bound on the number of sample records of a call
MaxSample == 2

IdLikeProps == {P_Id, P_id, P_aaid, P_bid, P_cid, P_userId}

\* records without an id-like key: name and nick with any kind of value
PlainRecords ==
  Dicts(P_name :> {"", "NULL", "1", "2"} @@ P_nick :> {"1", "2"})

\* records with one id-like key, with or without a name
IdRecords ==
  {Dict1(p, "1") @@ d : p \in IdLikeProps, d \in Dicts(P_name :> {"1"})}

SampleRecords == PlainRecords \cup IdRecords

SampleLists == UNION {[1..n -> SampleRecords] : n \in 1..MaxSample}

\* the states self.unique_constraints can have for the call
SampleConstraints ==
  { EmptyDict,
    Dict1(Person, <<P_name>>),
    Dict1(Person, <<P_nick, P_id>>),
    Dict1(Person, <<P_ssn>>),
    Dict1(Account, <<P_name>>) }

InitResolve ==
  /\ \E nodes \in SampleLists, uc \in SampleConstraints :
       arg = [label |-> Person, properties |-> Sorted(AllProperties(nodes)),
              nodes |-> nodes, uc |-> uc]
  /\ ret = NoName
  /\ pc = "call"
  /\ NoDatabase
  /\ Constructed
  /\ InTry

Resolve ==
  /\ pc = "call"
  /\ ret' = determine_identifier(arg.uc, arg.label, arg.properties, arg.nodes)
  /\ pc' = "returned"
  /\ UNCHANGED <<mainVars, arg, dbVars, runVars, docVars>>

NextResolve == Resolve

SpecResolve == InitResolve /\ [][NextResolve]_vars

----------------------------------------------------------------------------
(* Direct calls of _infer_type on the cells a generator can read           *)

\* bound on the length of the values made of InferAlphabet
MaxLen == 3

InferAlphabet == {"1", "-", ".", "e", "_", " "}

\* every value of at most MaxLen characters of the alphabet, and some words
InferValues ==
  UNION {[1..n -> InferAlphabet] : n \in 0..MaxLen}
    \cup { STR_NULL, STR_true, STR_false, STR_nan, STR_inf, STR_infinity,
           <<"T", "r", "u", "e">>, <<"F", "A", "L", "S", "E">>, <<"n", "u", "l", "l">>,
           <<" ", "t", "r", "u", "e">>, <<"t", "r", "u">>, <<"+", "1", "2">>,
           <<"1", "E", "+", "5">>, <<"-", "I", "n", "f">>, <<"0", "x", "1", "F">>,
           <<"1", ",", "5">>, <<"n">> }

InitInfer ==
  /\ \E value \in InferValues : arg = [value |-> value]
  /\ ret = None
  /\ pc = "infer"
  /\ NoDatabase
  /\ Constructed
  /\ InTry

Infer ==
  /\ pc = "infer"
  /\ ret' = infer_type(arg.value)
  /\ pc' = "inferred"
  /\ UNCHANGED <<mainVars, arg, dbVars, runVars, docVars>>

NextInfer == Infer

SpecInfer == InitInfer /\ [][NextInfer]_vars

----------------------------------------------------------------------------
(* main: construction of the exporter, the export run inside the try       *)
(* block, and the finally block                                            *)

\* the name create_zip gives the archive, and the name of --zip
AutoZip == "paysim-export.zip"
CustomZip == "custom.zip"

\* main is about to construct the exporter
InitMain ==
  /\ Database
  /\ Constructed
  /\ arg = NoCall
  /\ ret = NoName
  /\ driver = "none"
  /\ zip_path = None
  /\ pc = "main"

\* exporter = Neo4jExporter(...): __init__ creates the driver, sets the
\* fields and creates the output directory; main enters the try block
MainConstruct ==
  /\ pc = "main"
  /\ driver' = "open"
  /\ pc' = "start"
  /\ UNCHANGED <<dbVars, runVars, docVars, arg, ret, zip_path>>

\* __init__ raises: GraphDatabase.driver raises and no driver exists, or
\* the driver is created and os.makedirs raises; main is not in its try
\* block yet, so the exception leaves main
MainConstructRaises ==
  /\ pc = "main"
  /\ \E created \in BOOLEAN :
       driver' = IF created THEN "open" ELSE "none"
  /\ pc' = "failed"
  /\ UNCHANGED <<dbVars, runVars, docVars, arg, ret, zip_path>>

\* the end of export_all: zip_path = self.create_zip() if create_zip,
\* else None
ExportAllReturn ==
  /\ pc = "generated"
  /\ \E create_zip \in BOOLEAN :
       zip_path' = IF create_zip THEN AutoZip ELSE None
  /\ pc' = "zipped"
  /\ UNCHANGED <<dbVars, runVars, docVars, arg, ret, driver>>

\* if create_zip and args.zip and zip_path: shutil.move(zip_path, args.zip)
MainRename ==
  /\ pc = "zipped"
  /\ \E zip \in {None, CustomZip} :
       zip_path' = IF zip # None /\ zip_path # None THEN zip ELSE zip_path
  /\ pc' = "finally"
  /\ UNCHANGED <<dbVars, runVars, docVars, arg, ret, driver>>

\* finally: exporter.close(), after the try block has ended or an
\* exception has left it
MainClose ==
  /\ pc \in {"finally", "raised"}
  /\ driver' = "closed"
  /\ pc' = IF pc = "raised" THEN "failed" ELSE "exited"
  /\ UNCHANGED <<dbVars, runVars, docVars, arg, ret, zip_path>>

NextMain ==
  \/ MainConstruct
  \/ MainConstructRaises
  \/ GetGraphMetadata
  \/ GetUniqueConstraints
  \/ GetConstraintsDetailed
  \/ GetIndexes
  \/ ExportNodesEmpty
  \/ ExportNodesRaise
  \/ ExportNodesWrite
  \/ ExportNodesReturn
  \/ DiscoverPatterns
  \/ ExportPatternSkip
  \/ ExportPatternEmpty
  \/ ExportPatternWrite
  \/ ExportRelationshipsReturn
  \/ GenerateImporterModel
  \/ ExportAllReturn
  \/ MainRename
  \/ MainClose

SpecMain == InitMain /\ [][NextMain]_vars

----------------------------------------------------------------------------
(* Claims about _determine_identifier, checked under SpecResolve           *)

Returned == pc = "returned"

HasConstraint == arg.label \in DOMAIN arg.uc

\* position of property p in the given property order
PosOf(p) == CHOOSE i \in 1..Len(arg.properties) : arg.properties[i] = p

IdSuffixed == {p \in Range(arg.properties) : EndsWith(Lower(p), STR_id)}

ExactIds == {p \in Range(arg.properties) : Lower(p) = STR_id}

\* the sample records that have a usable value for property p
Usable(p) ==
  {k \in 1..Len(arg.nodes) :
     /\ p \in DOMAIN arg.nodes[k]
     /\ arg.nodes[k][p] # ""
     /\ arg.nodes[k][p] # "NULL"}

UsableValues(p) == {arg.nodes[k][p] : k \in Usable(p)}

\* C1: for a label with a declared uniqueness constraint the call returns
\* the first property of the constraint, whatever the other properties
\* are named and whatever the sample records contain
C1_ConstraintWins ==
  (Returned /\ HasConstraint) => ret = arg.uc[arg.label][1]

\* a constrained label that also has a property named id and whose
\* constraint property is in no record
C1_Witness ==
  /\ Returned
  /\ arg.uc = Dict1(Person, <<P_ssn>>)
  /\ P_id \in Range(arg.properties)
  /\ ret = P_ssn

\* C2: without a constraint, a property equal to id case-insensitively is
\* returned in preference to every other property ending in id; without
\* such a property the shortest property ending in id is returned, the
\* earliest in the property order among equally short ones
C2_IdPreference ==
  (Returned /\ ~HasConstraint) =>
     /\ ExactIds # {} => ret \in ExactIds
     /\ arg.properties = <<P_id, P_name, P_userId>> => ret = P_id
     /\ (ExactIds = {} /\ IdSuffixed # {}) =>
          /\ ret \in IdSuffixed
          /\ \A q \in IdSuffixed : Len(ret) <= Len(q)
          /\ \A q \in IdSuffixed : Len(q) = Len(ret) => PosOf(ret) <= PosOf(q)

\* no exact id; the shortest id-suffixed property is not the first one
C2_Witness ==
  /\ Returned
  /\ ~HasConstraint
  /\ arg.properties = <<P_aaid, P_bid, P_name>>
  /\ ret = P_bid

\* the properties C3 is about, as the claim words them: the number of
\* distinct usable values equals the number of usable values
UniqueAsWorded(p) == Cardinality(UsableValues(p)) = Cardinality(Usable(p))

\* the same with at least one usable value
UniqueNonEmpty(p) == Usable(p) # {} /\ UniqueAsWorded(p)

C3_Case == Returned /\ ~HasConstraint /\ IdSuffixed = {} /\ arg.properties # <<>>

\* C3 as worded: the first property whose distinct usable values are as
\* many as its usable values is returned, else the first property
C3_AsWorded ==
  C3_Case =>
     IF \E p \in Range(arg.properties) : UniqueAsWorded(p)
       THEN /\ UniqueAsWorded(ret)
            /\ \A q \in Range(arg.properties) :
                 UniqueAsWorded(q) => PosOf(ret) <= PosOf(q)
       ELSE ret = arg.properties[1]

\* C3 amended: the first property that has at least one usable value and
\* whose usable values are pairwise distinct is returned, else the first
\* property
C3_UniqueValued ==
  C3_Case =>
     IF \E p \in Range(arg.properties) : UniqueNonEmpty(p)
       THEN /\ UniqueNonEmpty(ret)
            /\ \A q \in Range(arg.properties) :
                 UniqueNonEmpty(q) => PosOf(ret) <= PosOf(q)
       ELSE ret = arg.properties[1]

\* name has no usable value, nick has distinct values: nick is returned
C3_Witness ==
  /\ C3_Case
  /\ arg.properties = <<P_name, P_nick>>
  /\ Usable(P_name) = {}
  /\ Cardinality(Usable(P_nick)) = MaxSample
  /\ ret = P_nick

----------------------------------------------------------------------------
(* Claims about export_nodes and export_relationships, checked under Spec  *)

\* export_nodes has returned
NodesExported == pc \in {"rels", "patterns", "done", "generated"}

\* export_nodes is running or has just returned: no relationship file is
\* written yet
NodeFilesFresh == pc \in {"nodes", "rels"}

\* the labels export_nodes has written a file for
WrittenLabels == DOMAIN nodes_with_id

\* a record has a usable value for property p
HasUsable(record, p) ==
  p \in DOMAIN record /\ record[p] # "" /\ record[p] # "NULL"

\* C4: a node record is written to the file of its label iff its value for
\* the label's identifier is present and neither empty nor the NULL
\* sentinel: the file has one row per such record, in order, and no other
C4_NodeRowIffIdentifier ==
  NodeFilesFresh =>
    \A label \in WrittenLabels :
      LET nodes == MatchNodes(label)
          kept  == nodes_with_id[label]
          rows  == files[label \o Csv].rows
      IN  /\ \A k \in 1..Len(nodes) :
               k \in Range(kept) <=> HasUsable(nodes[k], label_identifiers[label])
          /\ \A m, n \in 1..Len(kept) : m < n => kept[m] < kept[n]
          /\ Len(rows) = Len(kept)
          /\ \A m \in 1..Len(kept) :
               rows[m][1] = nodes[kept[m]][label_identifiers[label]]

\* one Person record is kept and one with an empty identifier is dropped
C4_Witness ==
  /\ pc = "rels"
  /\ Person \in WrittenLabels
  /\ Len(MatchNodes(Person)) = MaxNodes
  /\ Len(nodes_with_id[Person]) = 1
  /\ \E k \in 1..Len(MatchNodes(Person)) : Get(MatchNodes(Person)[k], P_id) = ""

\* the patterns export_relationships has gone through with both identifiers
\* resolved
FlattenedPatterns ==
  {patterns[k] : k \in {m \in 1..Len(patterns) :
      /\ pc \in {"done", "generated"} \/ (pc = "patterns" /\ m < idx)
      /\ patterns[m][1] \in DOMAIN label_identifiers
      /\ patterns[m][3] \in DOMAIN label_identifiers}}

\* the positions of the records of a pattern that are in its file
WrittenRecords(pattern) ==
  IF PatternKey(pattern) \in DOMAIN relationships
    THEN Range(relationships[PatternKey(pattern)])
    ELSE {}

\* C5: a relationship record of a flattened pattern is written iff both
\* endpoint identifier values are present and neither empty nor NULL
C5_RelRowIffBothIdentifiers ==
  \A pattern \in FlattenedPatterns :
    LET records == MatchRelationships(pattern[1], pattern[2], pattern[3])
        key     == PatternKey(pattern)
    IN  /\ \A k \in 1..Len(records) :
             k \in WrittenRecords(pattern) <=>
               /\ HasUsable(records[k].source, label_identifiers[pattern[1]])
               /\ HasUsable(records[k].target, label_identifiers[pattern[3]])
        /\ (key \o Csv) \in DOMAIN files <=> WrittenRecords(pattern) # {}
        /\ (key \o Csv) \in DOMAIN files =>
             Len(files[key \o Csv].rows) = Cardinality(WrittenRecords(pattern))

\* a record with a usable source identifier and an empty target identifier
\* was gone through and is in no file
C5_Witness ==
  /\ pc = "done"
  /\ \E pattern \in FlattenedPatterns :
       LET records == MatchRelationships(pattern[1], pattern[2], pattern[3])
       IN  /\ records # <<>>
           /\ HasUsable(records[1].source, label_identifiers[pattern[1]])
           /\ Get(records[1].target, label_identifiers[pattern[3]]) = ""
           /\ (PatternKey(pattern) \o Csv) \notin DOMAIN files

\* the descriptors export_relationships has produced
Descriptors == {rel_files[k].value : k \in 1..Len(rel_files)}

STR_Person_id_source == <<"P", "e", "r", "s", "o", "n", "_", "i", "d", "_", "s", "o", "u", "r", "c", "e">>
STR_Person_id_target == <<"P", "e", "r", "s", "o", "n", "_", "i", "d", "_", "t", "a", "r", "g", "e", "t">>
STR_Person_id        == <<"P", "e", "r", "s", "o", "n", "_", "i", "d">>
STR_Account_id       == <<"A", "c", "c", "o", "u", "n", "t", "_", "i", "d">>

\* C6: the endpoint columns are <label>_<prop>_source and
\* <label>_<prop>_target when the two labels are equal and resolve to the
\* same identifier, and <label>_<prop> on each side otherwise
C6_EndpointColumnNames ==
  \A d \in Descriptors :
    /\ IF d.source_label = d.target_label /\ d.source_id_prop = d.target_id_prop
         THEN /\ d.source_col_name = d.source_label \o <<"_">> \o d.source_id_prop
                                       \o <<"_", "s", "o", "u", "r", "c", "e">>
              /\ d.target_col_name = d.target_label \o <<"_">> \o d.target_id_prop
                                       \o <<"_", "t", "a", "r", "g", "e", "t">>
         ELSE /\ d.source_col_name = d.source_label \o <<"_">> \o d.source_id_prop
              /\ d.target_col_name = d.target_label \o <<"_">> \o d.target_id_prop
    /\ (d.source_label = Person /\ d.target_label = Person /\ d.source_id_prop = P_id) =>
         /\ d.source_col_name = STR_Person_id_source
         /\ d.target_col_name = STR_Person_id_target
    /\ (d.source_label = Person /\ d.target_label = Account
          /\ d.source_id_prop = P_id /\ d.target_id_prop = P_id) =>
         /\ d.source_col_name = STR_Person_id
         /\ d.target_col_name = STR_Account_id
    /\ LET header == files[PatternKey(<<d.source_label, d.rel_type, d.target_label>>)
                             \o Csv].header
       IN  header[1] = d.source_col_name /\ header[2] = d.target_col_name

\* (Person, KNOWS, Person) with identifier id has been flattened
C6_Witness ==
  \E d \in Descriptors :
    /\ d.source_label = Person /\ d.rel_type = KNOWS /\ d.target_label = Person
    /\ d.source_id_prop = P_id
    /\ d.source_col_name = STR_Person_id_source

\* C7: for every flattened pattern the source endpoint column name differs
\* from the target endpoint column name
C7_EndpointColumnsDiffer ==
  \A d \in Descriptors : d.source_col_name # d.target_col_name

\* the identifier values of the rows of a label's node file
NodeFileIds(label) ==
  IF (label \o Csv) \in DOMAIN files
    THEN {files[label \o Csv].rows[k][1] : k \in 1..Len(files[label \o Csv].rows)}
    ELSE {}

\* C8: every source and target endpoint value written in a relationship
\* file is the identifier value of a row of the corresponding node file
C8_EndpointsAreWrittenNodes ==
  \A d \in Descriptors :
    LET rows == files[PatternKey(<<d.source_label, d.rel_type, d.target_label>>)
                        \o Csv].rows
    IN  \A k \in 1..Len(rows) :
          /\ rows[k][1] \in NodeFileIds(d.source_label)
          /\ rows[k][2] \in NodeFileIds(d.target_label)

\* C9 as worded: after export_nodes every node label of the metadata has a
\* resolved identifier
C9_EveryLabelResolved ==
  NodesExported =>
    \A label \in Range(node_labels) : label \in DOMAIN label_identifiers

\* C9 amended: after export_nodes every node label of the metadata for
\* which the node query returned a record has a resolved identifier, a
\* non-empty name that is a property of its records or of its constraint,
\* and a label for which the query returned no record has none
C9_LabelsWithRecordsResolved ==
  NodesExported =>
    \A label \in Range(node_labels) :
      IF MatchNodes(label) # <<>>
        THEN /\ label \in DOMAIN label_identifiers
             /\ Len(label_identifiers[label]) > 0
             /\ \/ label_identifiers[label] \in AllProperties(MatchNodes(label))
                \/ /\ label \in DOMAIN unique_constraints
                   /\ label_identifiers[label] \in Range(unique_constraints[label])
        ELSE label \notin DOMAIN label_identifiers

\* export_nodes has returned with one label resolved and the stale label of
\* the metadata, which has no record, unresolved
C9_Witness ==
  /\ NodesExported
  /\ Ghost \in Range(node_labels)
  /\ Person \in Range(node_labels)
  /\ Person \in DOMAIN label_identifiers
  /\ Ghost \notin DOMAIN label_identifiers

\* C10: the column list of a label is its identifier followed by the other
\* observed properties in ascending order, each observed property once,
\* also when the identifier is in no record
C10_NodeColumnOrder ==
  \A k \in 1..Len(node_files) :
    LET label    == node_files[k].key
        columns  == node_files[k].value
        observed == AllProperties(MatchNodes(label))
    IN  /\ columns[1] = label_identifiers[label]
        /\ Range(columns) = observed \cup {label_identifiers[label]}
        /\ \A m, n \in 1..Len(columns) : m # n => columns[m] # columns[n]
        /\ \A m \in 2..(Len(columns) - 1) : StrLess(columns[m], columns[m + 1])
        /\ NodeFilesFresh => files[label \o Csv].header = columns

\* Person has the constraint identifier ssn, which no record has, before
\* the observed properties id and name
C10_Witness ==
  /\ NodesExported
  /\ \E k \in 1..Len(node_files) :
       /\ node_files[k].key = Person
       /\ node_files[k].value = <<P_ssn, P_id, P_name>>

----------------------------------------------------------------------------
(* Claims about the written rows and about failures, checked under Spec    *)

\* the records behind the rows of the node file of a written label
NodeFileRecords(label) ==
  [m \in 1..Len(nodes_with_id[label]) |-> MatchNodes(label)[nodes_with_id[label][m]]]

\* the relationship properties behind the rows of the file of a pattern
\* key: those of the pattern that the descriptor of the key names
RelFileRecords(key) ==
  LET rel_info == (CHOOSE entry \in Range(rel_files) : entry.key = key).value
      records  == MatchRelationships(rel_info.source_label, rel_info.rel_type,
                                     rel_info.target_label)
  IN  [m \in 1..Len(relationships[key]) |-> records[relationships[key][m]].r]

\* the columns of a file that are not named like one of its first `ids`
\* columns
OtherColumns(file, ids) ==
  {c \in (ids + 1)..Len(file.header) :
     \A e \in 1..ids : file.header[c] # file.header[e]}

\* every row has a cell per column
FullRows(file) == \A m \in 1..Len(file.rows) : Len(file.rows[m]) = Len(file.header)

\* a cell of a non-identifier column is NULL iff the record has no value
NullIffAbsent(file, records, ids) ==
  \A m \in 1..Len(file.rows) : \A c \in OtherColumns(file, ids) :
    file.rows[m][c] = "NULL" <=> file.header[c] \notin DOMAIN records[m]

\* a cell of a non-identifier column is the value of the record, or NULL
\* when the record has no value
ValueOrNull(file, records, ids) ==
  \A m \in 1..Len(file.rows) : \A c \in OtherColumns(file, ids) :
    file.rows[m][c] = IF file.header[c] \in DOMAIN records[m]
                        THEN records[m][file.header[c]] ELSE "NULL"

\* C11 as worded: every written row has a cell for every column of the
\* header, and a cell of a non-identifier column holds NULL if and only if
\* the record has no value for that property
C11_NullIffAbsent ==
  /\ \A label \in WrittenLabels :
       /\ FullRows(files[label \o Csv])
       /\ NullIffAbsent(files[label \o Csv], NodeFileRecords(label), 1)
  /\ \A key \in DOMAIN relationships :
       /\ FullRows(files[key \o Csv])
       /\ NullIffAbsent(files[key \o Csv], RelFileRecords(key), 2)

\* C11 amended: every written row has a cell for every column of the
\* header; a cell of a column that is not named like an identifier column
\* holds the record's value for that property when it has one, and NULL
\* when it has none, so it holds NULL if and only if the record has no
\* value or has the value NULL, and an empty value stays an empty cell
C11_ValueOrNull ==
  /\ \A label \in WrittenLabels :
       /\ FullRows(files[label \o Csv])
       /\ ValueOrNull(files[label \o Csv], NodeFileRecords(label), 1)
  /\ \A key \in DOMAIN relationships :
       /\ FullRows(files[key \o Csv])
       /\ ValueOrNull(files[key \o Csv], RelFileRecords(key), 2)

\* the Person file has a row of a record without a name and a row of a
\* record whose name is the text NULL
C11_Witness ==
  /\ Person \in WrittenLabels
  /\ files[Person \o Csv].header = <<P_id, P_name>>
  /\ Len(files[Person \o Csv].rows) = 2
  /\ \E m, n \in 1..2 :
       /\ P_name \notin DOMAIN NodeFileRecords(Person)[m]
       /\ Get(NodeFileRecords(Person)[n], P_name) = "NULL"

\* C12: a label with records and no property aborts nothing: the run does
\* not raise, no file is written for that label, and every other node label
\* that has records is exported
C12_FailureConfinedToLabel ==
  /\ pc # "raised"
  /\ NodesExported =>
       \A label \in Range(node_labels) :
         LET nodes == MatchNodes(label)
         IN  IF /\ nodes # <<>>
                /\ AllProperties(nodes) = {}
                /\ label \notin DOMAIN unique_constraints
               THEN (label \o Csv) \notin DOMAIN files
               ELSE nodes # <<>> => (label \o Csv) \in DOMAIN files

\* a pattern has a record whose endpoint identifier values are usable
HasUsableRecord(pattern) ==
  LET records == MatchRelationships(pattern[1], pattern[2], pattern[3])
  IN  \E k \in 1..Len(records) :
        /\ HasUsable(records[k].source, label_identifiers[pattern[1]])
        /\ HasUsable(records[k].target, label_identifiers[pattern[3]])

\* C13: when export_relationships has returned, a pattern whose source or
\* target label has no resolved identifier has no file and no descriptor,
\* and every other pattern, before or after it in the list, that has a
\* usable record has its file and its descriptor
C13_SkippedPatternOnly ==
  pc \in {"done", "generated"} =>
    \A k \in 1..Len(patterns) :
      LET key == PatternKey(patterns[k])
      IN  IF \/ patterns[k][1] \notin DOMAIN label_identifiers
             \/ patterns[k][3] \notin DOMAIN label_identifiers
            THEN /\ key \notin DictKeys(rel_files)
                 /\ (key \o Csv) \notin DOMAIN files
            ELSE HasUsableRecord(patterns[k]) =>
                   /\ key \in DictKeys(rel_files)
                   /\ (key \o Csv) \in DOMAIN files

\* the first pattern was skipped for its target label and the second one
\* was flattened
C13_Witness ==
  /\ pc = "done"
  /\ Len(patterns) = 2
  /\ patterns[1][3] \notin DOMAIN label_identifiers
  /\ PatternKey(patterns[1]) \notin DictKeys(rel_files)
  /\ PatternKey(patterns[2]) \in DictKeys(rel_files)

\* C14: a pattern is flattened only when export_nodes has returned, every
\* node label with records being resolved and written; an identifier is
\* assigned to one label at a time, during export_nodes only, and an
\* assigned identifier is never changed or removed
C14_ResolvedBeforeFlattening ==
  [][/\ (relationships' # relationships \/ rel_files' # rel_files) =>
          /\ pc = "patterns"
          /\ \A label \in Range(node_labels) :
               MatchNodes(label) # <<>> =>
                 label \in DOMAIN label_identifiers /\ label \in DictKeys(node_files)
     /\ \A label \in DOMAIN label_identifiers :
          /\ label \in DOMAIN label_identifiers'
          /\ label_identifiers'[label] = label_identifiers[label]
     /\ label_identifiers' # label_identifiers =>
          /\ pc = "nodes"
          /\ Cardinality(DOMAIN label_identifiers' \ DOMAIN label_identifiers) = 1
    ]_vars

\* a pattern has been flattened between two labels resolved one after the
\* other
C14_Witness ==
  /\ pc = "patterns"
  /\ idx > 1
  /\ rel_files # <<>>
  /\ Cardinality(DOMAIN label_identifiers) = 2

----------------------------------------------------------------------------
(* Claim about _infer_type, checked under SpecInfer                        *)

\* C15: the result is string for an empty value and for NULL; otherwise
\* integer when the value parses as an integer, else float when it parses
\* as a float, else boolean when it is true or false in any case, else
\* string; a value that parses as an integer is never reported as float
C15_InferenceOrder ==
  pc = "inferred" =>
    LET value == arg.value
    IN  /\ (value = <<>> \/ value = STR_NULL) => ret = "string"
        /\ (value # <<>> /\ value # STR_NULL) =>
             /\ IntLiteral(value) => ret = "integer"
             /\ (~IntLiteral(value) /\ FloatLiteral(value)) => ret = "float"
             /\ (~IntLiteral(value) /\ ~FloatLiteral(value)) =>
                  ret = IF Lower(value) \in {STR_true, STR_false}
                          THEN "boolean" ELSE "string"
        /\ IntLiteral(value) => ret # "float"
        /\ value = <<"1">> => ret = "integer"
        /\ value = <<"-", "1">> => ret = "integer"
        /\ value = <<"1", "_", "1">> => ret = "integer"
        /\ value = <<"1", ".", "1">> => ret = "float"
        /\ value = <<"1", "e", "1">> => ret = "float"
        /\ value = <<".", "1">> => ret = "float"
        /\ value = STR_nan => ret = "float"
        /\ value = <<"T", "r", "u", "e">> => ret = "boolean"
        /\ value = <<" ", "t", "r", "u", "e">> => ret = "string"
        /\ value = <<"1", " ", "1">> => ret = "string"
        /\ value = <<"-">> => ret = "string"

\* a value that both int() and float() accept was reported as integer
C15_Witness ==
  /\ pc = "inferred"
  /\ arg.value = <<" ", "-", "1">>
  /\ FloatLiteral(arg.value)
  /\ ret = "integer"

----------------------------------------------------------------------------
(* Claims about the generated document, checked under Spec                 *)

Generated(format) == pc = "generated" /\ format_version = format

\* the token a reference points to
Unref(ref) == Tail(ref)

NoDuplicates(seq) ==
  \A m, n \in 1..Len(seq) : m # n => seq[m] # seq[n]

\* the id fields of a sequence of declarations
Ids(decls) == [k \in 1..Len(decls) |-> decls[k].id]

\* the properties declared by the node labels, by the relationship types
NodePropertyDefs(doc) ==
  Flatten([k \in 1..Len(doc.nodeLabels) |-> doc.nodeLabels[k].properties])
RelPropertyDefs(doc) ==
  Flatten([k \in 1..Len(doc.relationshipTypes) |-> doc.relationshipTypes[k].properties])

\* the tokens a document of format 3.0 or 2.4.0 declares: its labels,
\* relationship types, properties, indexes and constraints, and its nodes
\* and relationship objects -- a document of format 3.0 declares a node as
\* a node object type, one of format 2.4.0 as a visualisation node
DeclaredIds(doc) ==
  Ids(doc.nodeLabels) \o Ids(NodePropertyDefs(doc))
    \o Ids(doc.relationshipTypes) \o Ids(RelPropertyDefs(doc))
    \o Ids(doc.constraints) \o Ids(doc.indexes)
    \o (IF "nodeObjectTypes" \in DOMAIN doc
          THEN Ids(doc.nodeObjectTypes) \o Ids(doc.relationshipObjectTypes)
          ELSE Ids(doc.visualisation))

\* the set of the values of field of the elements of a sequence
FieldSet(seq, field) == {seq[k][field] : k \in 1..Len(seq)}

\* every reference of a document of format 3.0 or 2.4.0
Refs(doc) ==
  UNION {Range(x.properties) \cup {x.nodeLabel} :
           x \in Range(doc.constraints) \cup Range(doc.indexes)}
    \cup UNION {Range(x.keyProperties) \cup {x.node} : x \in Range(doc.nodeKeyProperties)}
    \cup UNION {FieldSet(x.propertyMappings, "property") \cup {x.node} :
                  x \in Range(doc.nodeMappings)}
    \cup UNION {FieldSet(x.propertyMappings, "property") \cup {x.relationship} :
                  x \in Range(doc.relationshipMappings)}
    \cup (IF "nodeObjectTypes" \in DOMAIN doc
            THEN UNION {Range(x.labels) : x \in Range(doc.nodeObjectTypes)}
                   \cup UNION {{x.type, x.from, x.to} :
                                 x \in Range(doc.relationshipObjectTypes)}
            ELSE UNION {{x.from, x.to} : x \in Range(doc.relationshipTypes)})

\* the property tokens that key the endpoint mappings: f"#{prop_id}" in the
\* format 3.0, the bare prop_id in the format 2.4.0
MappingKeys(doc) ==
  UNION {(IF "fromMappings" \in DOMAIN x THEN DOMAIN x.fromMappings ELSE {})
           \cup (IF "toMappings" \in DOMAIN x THEN DOMAIN x.toMappings ELSE {})
           : x \in Range(doc.relationshipMappings)}

MappingKeyToken(doc, key) == IF "nodeObjectTypes" \in DOMAIN doc THEN Unref(key) ELSE key

\* the number of declarations of a token
Declarations(doc, token) ==
  Cardinality({m \in 1..Len(DeclaredIds(doc)) : DeclaredIds(doc)[m] = token})

ById(decls, id) == CHOOSE decl \in Range(decls) : decl.id = id

\* the tokens (names) of a sequence of property definitions
Tokens(props) == {props[j].token : j \in 1..Len(props)}

\* the values of a dict
Values(d) == {d[key] : key \in DOMAIN d}

\* The semantic graph model a document encodes: per label its properties
\* and key properties, per pattern its endpoints, type, properties and the
\* columns its endpoints are mapped to.

\* format 3.0 and 2.4.0: the labels with their properties, the key
\* properties being found through the label that declares them
LabelModel(doc) ==
  {[label      |-> label.token,
    properties |-> Tokens(label.properties),
    key        |-> {ById(label.properties, Unref(ref)).token :
                      ref \in {ref \in UNION {Range(kp.keyProperties) :
                                                kp \in Range(doc.nodeKeyProperties)} :
                                Unref(ref) \in Range(Ids(label.properties))}}]
     : label \in Range(doc.nodeLabels)}

\* format 3.0: a relationship mapping points to a relationship object type,
\* which points to its type and to the node object types of its endpoints
PatternModel30(doc) ==
  {LET object == ById(doc.relationshipObjectTypes, Unref(mapping.relationship))
       type   == ById(doc.relationshipTypes, Unref(object.type))
       source == ById(doc.nodeObjectTypes, Unref(object.from))
       target == ById(doc.nodeObjectTypes, Unref(object.to))
   IN  [source         |-> ById(doc.nodeLabels, Unref(source.labels[1])).token,
        type           |-> type.token,
        target         |-> ById(doc.nodeLabels, Unref(target.labels[1])).token,
        properties     |-> Tokens(type.properties),
        source_columns |-> Values(mapping.fromMappings),
        target_columns |-> Values(mapping.toMappings)]
     : mapping \in Range(doc.relationshipMappings)}

\* format 2.4.0: a relationship mapping points to a relationship type,
\* which points to the labels of its endpoints
PatternModel24(doc) ==
  {LET type == ById(doc.relationshipTypes, Unref(mapping.relationship))
   IN  [source         |-> ById(doc.nodeLabels, Unref(type.from)).token,
        type           |-> type.token,
        target         |-> ById(doc.nodeLabels, Unref(type.to)).token,
        properties     |-> Tokens(type.properties),
        source_columns |-> IF "fromMappings" \in DOMAIN mapping
                             THEN Values(mapping.fromMappings) ELSE {},
        target_columns |-> IF "toMappings" \in DOMAIN mapping
                             THEN Values(mapping.toMappings) ELSE {}]
     : mapping \in Range(doc.relationshipMappings)}

\* format 0.1.0: schemas and mappings are keyed by node id and by
\* relationship id, a key property is given by its identifier
LabelModel01(doc) ==
  {LET schema == doc.nodeSchemas[node_id]
   IN  [label      |-> schema.label,
        properties |-> {schema.properties[j].property : j \in 1..Len(schema.properties)},
        key        |-> {schema.properties[j].property :
                          j \in {j \in 1..Len(schema.properties) :
                                   schema.properties[j].identifier
                                     \in Range(schema.key.properties)}}]
     : node_id \in DOMAIN doc.nodeSchemas}

PatternModel01(doc) ==
  {LET schema  == doc.relationshipSchemas[rel_id]
       mapping == doc.relationshipMappings[rel_id]
   IN  [source         |-> doc.nodeSchemas[schema.sourceNodeSchema].label,
        type           |-> schema.type,
        target         |-> doc.nodeSchemas[schema.targetNodeSchema].label,
        properties     |-> {schema.properties[j].property :
                              j \in 1..Len(schema.properties)},
        source_columns |-> FieldSet(mapping.sourceMappings, "field"),
        target_columns |-> FieldSet(mapping.targetMappings, "field")]
     : rel_id \in DOMAIN doc.relationshipSchemas}

\* C17: the documents of the three formats generated from the node and
\* relationship descriptors of a run encode the same labels, properties and
\* key property per label, and the same patterns with the same properties
\* and endpoint columns per pattern
C17_SameSemanticModel ==
  pc = "generated" =>
    LET doc30 == generate_model_v3_0(node_files, rel_files)
        doc24 == generate_model_v2_4(node_files, rel_files)
        doc01 == generate_model_v0_1(node_files, rel_files)
    IN  /\ LabelModel(doc30) = LabelModel(doc24)
        /\ LabelModel(doc24) = LabelModel01(doc01)
        /\ PatternModel30(doc30) = PatternModel24(doc24)
        /\ PatternModel24(doc24) = PatternModel01(doc01)

\* the steps of the run after get_unique_constraints, after
\* get_constraints_detailed and after get_indexes
AfterUnique   == pc \notin {"start", "constraints", "call", "returned", "infer", "inferred"}
AfterDetailed == AfterUnique /\ pc # "detailed" /\ format_version \in {"2.4.0", "3.0"}
AfterIndexes  == AfterDetailed /\ pc # "indexes"

\* C18: when the constraint queries or the index queries raise, at once or
\* after some records, the step ends with an empty set of unique
\* constraints, of detailed constraints or of indexes, and the run goes on
C18_FailedIntrospectionIsEmpty ==
  /\ (AfterUnique /\ db_constraints.show = "raises" /\ db_constraints.legacy = "raises")
       => unique_constraints = EmptyDict
  /\ (AfterDetailed /\ db_constraints.show = "raises") => constraints = <<>>
  /\ (AfterIndexes /\ db_indexes.show = "raises" /\ db_indexes.legacy = "raises")
       => indexes = <<>>

\* a schema object is on the label and the properties of a collected index
\* or constraint
SameTarget(doc, object, info) ==
  /\ object.entityType = info.entityType
  /\ ById(doc.nodeLabels, Unref(object.nodeLabel)).token = info.labels[1]
  /\ [j \in 1..Len(object.properties) |->
        ById(NodePropertyDefs(doc), Unref(object.properties[j])).token] = info.properties

\* a schema object carries the name, the label and the properties of a
\* collected index or constraint
Carries(doc, object, info) ==
  object.name = info.name /\ SameTarget(doc, object, info)

\* C19: a document of format 3.0 has a uniqueness constraint on the key
\* property of every exported label, an index for every collected index,
\* and for every collected constraint a constraint of its kind on its label
\* and properties, under its own name or a synthesized one
C19_SchemaCarried30 ==
  Generated("3.0") =>
    /\ \A label \in Range(model.nodeLabels) :
         \E kp \in Range(model.nodeKeyProperties), c \in Range(model.constraints) :
           /\ Unref(kp.keyProperties[1]) \in Range(Ids(label.properties))
           /\ c.constraintType = STR_uniqueness
           /\ c.nodeLabel = Ref(label.id)
           /\ c.properties = kp.keyProperties
    /\ \A m \in 1..Len(indexes) :
         \E x \in Range(model.indexes) : x.name = indexes[m].name
    /\ \A m \in 1..Len(constraints) :
         \E c \in Range(model.constraints) :
           /\ c.constraintType = constraints[m].type
           /\ SameTarget(model, c, constraints[m])

\* C20: a document of format 2.4.0 has, for every collected index and every
\* collected constraint, exactly one schema object with its name, kind
\* (RANGE being written default), label and properties
C20_SchemaObjects24 ==
  Generated("2.4.0") =>
    /\ \A m \in 1..Len(indexes) :
         Cardinality({k \in 1..Len(model.indexes) :
            /\ Carries(model, model.indexes[k], indexes[m])
            /\ model.indexes[k].indexType =
                 IF indexes[m].type = STR_RANGE THEN STR_default ELSE indexes[m].type}) = 1
    /\ \A m \in 1..Len(constraints) :
         Cardinality({k \in 1..Len(model.constraints) :
            /\ Carries(model, model.constraints[k], constraints[m])
            /\ model.constraints[k].constraintType = constraints[m].type}) = 1

----------------------------------------------------------------------------
(* Claims about the table descriptions, keys and tokens of the documents   *)

\* a field of a table description has the sample and the type of the first
\* row of the file of that name, '' and string when the file has no row
FromFirstRow(filename, field, sample, type) ==
  /\ sample = GetOr(ReadFirstRow(filename), field, "")
  /\ type = SampleType(ReadFirstRow(filename), field)

\* the table descriptions of the node files of a document of any format
NodeTablesFromOwnFile ==
  IF format_version = "0.1.0"
    THEN \A name \in DOMAIN model.fileSchemas :
           \A f \in Range(model.fileSchemas[name].fields) :
             FromFirstRow(name, f.name, f.sample, f.type)
    ELSE \A k \in 1..Len(model.nodeMappings) :
           \A t \in Range(model.tableSchemas) :
             t.name = model.nodeMappings[k].tableName =>
               \A f \in Range(t.fields) :
                 FromFirstRow(t.name, f.name, f.sample, f.recommendedType)

\* the table descriptions of the relationship files: the table schema of
\* the file in the formats 3.0 and 2.4.0, the typed properties of the
\* relationship schema in the format 0.1.0, which has no table of its own
\* for a relationship file
RelTablesFromOwnFile ==
  IF format_version = "0.1.0"
    THEN \A rel_id \in DOMAIN model.relationshipSchemas :
           \A prop \in Range(model.relationshipSchemas[rel_id].properties) :
             prop.type = SampleType(ReadFirstRow(model.relationshipMappings[rel_id].fileSchema),
                                    prop.property)
    ELSE \A k \in 1..Len(model.relationshipMappings) :
           \A t \in Range(model.tableSchemas) :
             t.name = model.relationshipMappings[k].tableName =>
               \A f \in Range(t.fields) :
                 FromFirstRow(t.name, f.name, f.sample, f.recommendedType)

\* C21: in a generated document of any format, the sample and the type of
\* every column of the table description of a node label and of a
\* relationship pattern are those of the first row of its own file, or ''
\* and string when the file has no rows
C21_SampleFromOwnFile ==
  pc = "generated" => NodeTablesFromOwnFile /\ RelTablesFromOwnFile

\* the labels and key properties a document of the run's format encodes
KeyModel ==
  IF format_version = "0.1.0" THEN LabelModel01(model) ELSE LabelModel(model)

\* the number of key properties the document records for the label at
\* position k of node_files
KeyCount(k) ==
  IF format_version = "0.1.0"
    THEN Len(model.nodeSchemas[NodeId01(k)].key.properties)
    ELSE LET node == model.nodeMappings[k].node
             hit  == SelectSeq(model.nodeKeyProperties, LAMBDA kp : kp.node = node)
         IN  Len(Flatten([m \in 1..Len(hit) |-> hit[m].keyProperties]))

\* the key property C22 states for a label with the given columns
StatedKey(label, columns) ==
  IF label \in DOMAIN unique_constraints /\ unique_constraints[label] # <<>>
    THEN unique_constraints[label][1]
    ELSE columns[1]

\* C22: the generated document of any format records exactly one key
\* property for every exported label: the first property of the label's
\* uniqueness constraint when it has one, else the first column of the
\* label; and it is the identifier export_nodes resolved for the label
C22_KeyIsIdentifier ==
  pc = "generated" =>
    /\ {l.label : l \in KeyModel} = DictKeys(node_files)
    /\ \A k \in 1..Len(node_files) :
         LET label == node_files[k].key
         IN  /\ KeyCount(k) = 1
             /\ \A l \in KeyModel :
                  l.label = label =>
                    /\ l.key = {StatedKey(label, node_files[k].value)}
                    /\ l.key = {label_identifiers[label]}

\* Person has the constraint property ssn as its key although no record has
\* it, and Account, without a constraint, has its first column
C22_Witness ==
  /\ pc = "generated"
  /\ Person \in DOMAIN unique_constraints
  /\ \E l \in KeyModel : l.label = Person /\ l.key = {P_ssn} /\ P_id \in l.properties
  /\ \E l \in KeyModel : l.label = Account /\ l.key = {P_id}

\* the node-identity token of the label at position k of node_files: the id
\* of its node object type (3.0), of its visualisation node (2.4.0), of its
\* graph node (0.1.0)
NodeToken(k) ==
  CASE format_version = "3.0"   -> model.nodeObjectTypes[k].id
    [] format_version = "2.4.0" -> model.visualisation[k].id
    [] OTHER                    -> model.graph.nodes[k].id

\* its label-schema token: the id of the node label that has its name (3.0,
\* 2.4.0), the key of the node schema that has its name (0.1.0)
LabelToken(k) ==
  IF format_version = "0.1.0"
    THEN CHOOSE node_id \in DOMAIN model.nodeSchemas :
           model.nodeSchemas[node_id].label = node_files[k].key
    ELSE (CHOOSE label \in Range(model.nodeLabels) : label.token = node_files[k].key).id

\* the node mapping of a label points to its node-identity token, and no
\* two labels share a token
TokensAssigned ==
  /\ \A k \in 1..Len(node_files) :
       IF format_version = "0.1.0"
         THEN /\ model.nodeMappings[NodeToken(k)].fileSchema = node_files[k].key \o Csv
              /\ model.nodeMappings[NodeToken(k)].nodeSchema = LabelToken(k)
         ELSE model.nodeMappings[k].node = Ref(NodeToken(k))
  /\ \A k, m \in 1..Len(node_files) :
       k # m => NodeToken(k) # NodeToken(m) /\ LabelToken(k) # LabelToken(m)

\* C23 as worded: every label has a node-identity token and a label-schema
\* token, the same token in the format 3.0 and two distinct tokens in the
\* formats 2.4.0 and 0.1.0
C23_SameTokenInNewest ==
  pc = "generated" =>
    /\ TokensAssigned
    /\ \A k \in 1..Len(node_files) :
         IF format_version = "3.0" THEN NodeToken(k) = LabelToken(k)
                                   ELSE NodeToken(k) # LabelToken(k)

\* C23 amended: every label has a node-identity token and a label-schema
\* token; they are two distinct tokens in the formats 3.0 (n:i, nl:i) and
\* 2.4.0 (n:ni, nl:ni) and one and the same token in the format 0.1.0 (ni)
C23_SameTokenInLegacy ==
  pc = "generated" =>
    /\ TokensAssigned
    /\ \A k \in 1..Len(node_files) :
         IF format_version = "0.1.0" THEN NodeToken(k) = LabelToken(k)
                                     ELSE NodeToken(k) # LabelToken(k)

\* a document of format 3.0 whose second label has the tokens n:1 and nl:1
C23_Witness ==
  /\ Generated("3.0")
  /\ Len(node_files) = 2
  /\ NodeToken(2) = <<"n", ":", "1">>
  /\ LabelToken(2) = <<"n", "l", ":", "1">>

----------------------------------------------------------------------------
(* Claims about relationship types, columns and files                      *)

\* the relationship types of the descriptors
DescriptorTypes == {rel_files[k].value.rel_type : k \in 1..Len(rel_files)}

\* the label a reference to a node object type of a 3.0 document stands for
NodeObjectLabel(doc, ref) ==
  ById(doc.nodeLabels, Unref(ById(doc.nodeObjectTypes, Unref(ref)).labels[1])).token

\* C24: a document of format 3.0 has one relationship type schema per
\* distinct relationship type of the descriptors and one relationship
\* object type per descriptor, in order, which refers to the schema of its
\* type and to the node object types of its source and target labels
C24_OneSchemaPerType ==
  Generated("3.0") =>
    /\ Len(model.relationshipTypes) = Cardinality(DescriptorTypes)
    /\ {type.token : type \in Range(model.relationshipTypes)} = DescriptorTypes
    /\ Len(model.relationshipObjectTypes) = Len(rel_files)
    /\ NoDuplicates(Ids(model.relationshipObjectTypes))
    /\ \A k \in 1..Len(rel_files) :
         LET object   == model.relationshipObjectTypes[k]
             rel_info == rel_files[k].value
         IN  /\ Cardinality({type \in Range(model.relationshipTypes) :
                               Ref(type.id) = object.type}) = 1
             /\ ById(model.relationshipTypes, Unref(object.type)).token = rel_info.rel_type
             /\ NodeObjectLabel(model, object.from) = rel_info.source_label
             /\ NodeObjectLabel(model, object.to) = rel_info.target_label

\* two patterns of the type KNOWS with different target labels share one
\* relationship type schema
C24_Witness ==
  /\ Generated("3.0")
  /\ Len(rel_files) = 2
  /\ rel_files[1].value.rel_type = KNOWS
  /\ rel_files[2].value.rel_type = KNOWS
  /\ rel_files[1].value.target_label # rel_files[2].value.target_label
  /\ Len(model.relationshipTypes) = 1
  /\ model.relationshipObjectTypes[1].type = model.relationshipObjectTypes[2].type

\* C25: the header of the file of a flattened pattern and the column list
\* of its descriptor are the source endpoint column, the target endpoint
\* column, then the property names of the written relationships in
\* ascending order; the descriptor's relationship properties are that list
\* without its first two entries
C25_RelColumnOrder ==
  \A k \in 1..Len(rel_files) :
    LET key      == rel_files[k].key
        rel_info == rel_files[k].value
        columns  == rel_info.all_properties
        records  == RelFileRecords(key)
    IN  /\ files[key \o Csv].header = columns
        /\ Len(columns) >= 2
        /\ columns[1] = rel_info.source_col_name
        /\ columns[2] = rel_info.target_col_name
        /\ rel_info.rel_properties = SubSeq(columns, 3, Len(columns))
        /\ Range(rel_info.rel_properties) = UNION {DOMAIN records[m] : m \in 1..Len(records)}
        /\ \A m \in 3..(Len(columns) - 1) : StrLess(columns[m], columns[m + 1])

\* a pattern from Person to Account, whose target column sorts before its
\* source column, with the relationship properties age and since
C25_Witness ==
  \E k \in 1..Len(rel_files) :
    rel_files[k].value.all_properties =
      <<Person \o Us \o P_id, Account \o Us \o P_id, P_age, P_since>>

\* the discovered patterns that have a written row: both labels resolved
\* and a record with usable endpoint identifiers
WrittenPatterns ==
  {pattern \in Range(patterns) :
     /\ pattern[1] \in DOMAIN label_identifiers
     /\ pattern[3] \in DOMAIN label_identifiers
     /\ HasUsableRecord(pattern)}

\* C26: when export_relationships has returned, two distinct patterns with
\* written rows have two distinct files and two distinct descriptor keys,
\* every such pattern has the descriptor of its own under its key, and no
\* file of a pattern is the file of a node label
C26_OneFilePerPattern ==
  pc \in {"done", "generated"} =>
    /\ \A p, q \in WrittenPatterns : p # q => PatternKey(p) # PatternKey(q)
    /\ Len(rel_files) = Cardinality(WrittenPatterns)
    /\ \A p \in WrittenPatterns :
         \E k \in 1..Len(rel_files) :
           /\ rel_files[k].key = PatternKey(p)
           /\ <<rel_files[k].value.source_label, rel_files[k].value.rel_type,
                rel_files[k].value.target_label>> = p
    /\ \A p \in WrittenPatterns : PatternKey(p) \notin DictKeys(node_files)

\* the records (source, r, target) behind the rows of the file of a pattern
\* key
RelFileSources(key) ==
  LET rel_info == (CHOOSE entry \in Range(rel_files) : entry.key = key).value
      records  == MatchRelationships(rel_info.source_label, rel_info.rel_type,
                                     rel_info.target_label)
  IN  [m \in 1..Len(relationships[key]) |-> records[relationships[key][m]]]

\* C27: in every row of a relationship file the first column holds the
\* identifier value of the source node and the second that of the target
\* node, and the header has no column name twice
C27_EndpointValuesKept ==
  \A k \in 1..Len(rel_files) :
    LET key      == rel_files[k].key
        rel_info == rel_files[k].value
        file     == files[key \o Csv]
        records  == RelFileSources(key)
    IN  /\ NoDuplicates(file.header)
        /\ Len(file.rows) = Len(records)
        /\ \A m \in 1..Len(file.rows) :
             /\ file.rows[m][1] = records[m].source[rel_info.source_id_prop]
             /\ file.rows[m][2] = records[m].target[rel_info.target_id_prop]

----------------------------------------------------------------------------
(* Claims about the descriptors the generators read                        *)

\* an endpoint mapping has exactly one entry, whose key is the token of the
\* property named id_prop of the label named label and whose value is the
\* endpoint column
OneEndpointEntry(doc, mapping, field, label, id_prop, col_name) ==
  /\ field \in DOMAIN mapping
  /\ Cardinality(DOMAIN mapping[field]) = 1
  /\ \A key \in DOMAIN mapping[field] :
       /\ mapping[field][key] = col_name
       /\ \E decl \in Range(doc.nodeLabels) :
            /\ decl.token = label
            /\ \E prop \in Range(decl.properties) :
                 /\ prop.id = MappingKeyToken(doc, key)
                 /\ prop.token = id_prop

\* C28: when the run has generated its document, the source and target
\* labels of every relationship descriptor are keys of the node
\* descriptors and its identifier properties are columns of these labels;
\* the document has an entry for every descriptor, and in the formats 3.0
\* and 2.4.0 the relationship mapping of a descriptor has exactly one
\* from-entry and one to-entry, from the token of the endpoint identifier
\* property to the endpoint column
C28_DescriptorsResolve ==
  pc = "generated" =>
    /\ \A k \in 1..Len(rel_files) :
         LET rel_info == rel_files[k].value
         IN  /\ \E m \in 1..Len(node_files) :
                  /\ node_files[m].key = rel_info.source_label
                  /\ rel_info.source_id_prop \in Range(node_files[m].value)
             /\ \E m \in 1..Len(node_files) :
                  /\ node_files[m].key = rel_info.target_label
                  /\ rel_info.target_id_prop \in Range(node_files[m].value)
    /\ IF format_version = "0.1.0"
         THEN /\ Cardinality(DOMAIN model.relationshipSchemas) = Len(rel_files)
              /\ Cardinality(DOMAIN model.relationshipMappings) = Len(rel_files)
         ELSE /\ Len(model.relationshipMappings) = Len(rel_files)
              /\ \A k \in 1..Len(rel_files) :
                   LET rel_info == rel_files[k].value
                       mapping  == model.relationshipMappings[k]
                   IN  /\ mapping.tableName = rel_files[k].key \o Csv
                       /\ OneEndpointEntry(model, mapping, "fromMappings",
                                           rel_info.source_label, rel_info.source_id_prop,
                                           rel_info.source_col_name)
                       /\ OneEndpointEntry(model, mapping, "toMappings",
                                           rel_info.target_label, rel_info.target_id_prop,
                                           rel_info.target_col_name)

\* a document of format 2.4.0 for a pattern from Account to Person, the
\* second label of the document: the key of its to-entry counts the columns
\* of the first label
C28_Witness ==
  /\ Generated("2.4.0")
  /\ Len(node_files) = 2
  /\ Len(node_files[1].value) = 2
  /\ \E k \in 1..Len(rel_files) :
       /\ rel_files[k].value.source_label = node_files[1].key
       /\ rel_files[k].value.target_label = node_files[2].key
       /\ "toMappings" \in DOMAIN model.relationshipMappings[k]
       /\ DOMAIN model.relationshipMappings[k].toMappings = {<<"p", ":", "3">>}

\* the tokens of the properties that the relationship type of the k-th
\* relationship object type of a 3.0 document declares
DeclaredRelProperties(doc, k) ==
  UNION {Tokens(type.properties) :
           type \in {t \in Range(doc.relationshipTypes) :
                       Ref(t.id) = doc.relationshipObjectTypes[k].type}}

\* C29: in a document of format 3.0 every relationship property of every
\* descriptor is declared by the relationship type that the object type of
\* its pattern refers to, also when patterns share a relationship type
C29_RelPropertiesDeclared ==
  Generated("3.0") =>
    /\ Len(model.relationshipObjectTypes) = Len(rel_files)
    /\ \A k \in 1..Len(rel_files) :
         Range(rel_files[k].value.rel_properties) \subseteq DeclaredRelProperties(model, k)

----------------------------------------------------------------------------
(* Claims about main, checked under SpecMain                               *)

\* main has ended, by returning or by an exception that left it
MainEnded == pc \in {"exited", "failed"}

\* C30: when main has ended, a driver that was created has been closed,
\* whether the export completed or construction or the export raised
C30_DriverClosedAtExit ==
  MainEnded => driver # "open"

====
